---- MODULE Spec2Model ----
(***************************************************************************)
(* asn1ate: the pyasn1 back end (pyasn1gen.py), its indentation-aware      *)
(* writer (support/pygen.py) and the services of the semantic model it     *)
(* calls, as a state machine.                                              *)
(*                                                                         *)
(* Python strings are modelled as sequences of tokens: a literal chunk     *)
(* [lit |-> "..."], an identifier [id |-> <<chars>>] whose characters are  *)
(* kept so that sanitisation is computed, a line break [nl |-> TRUE] and a *)
(* run of spaces [sp |-> n].  A raised exception is the token [exc |-> k]: *)
(* a text that holds one stands for an evaluation that raised.             *)
(***************************************************************************)
EXTENDS Integers, Sequences, FiniteSets, TLC

VARIABLES
    sema_module,            \* Pyasn1Backend.sema_module
    referenced_modules,     \* Pyasn1Backend.referenced_modules
    pc,                     \* position in the running operation
    assignment_components,  \* generate_code: result of dependency_sort
    ci,                     \* generate_code: index of the component in the outer loop
    ai,                     \* generate_code: index of the assignment in an inner loop
    out,                    \* text written to the writer's out_stream
    log,                    \* history of the blocks written by generate_code
    arg,                    \* input of the operation applied to a drawn input
    res                     \* its result

vars == << sema_module, referenced_modules, pc, assignment_components, ci, ai,
           out, log, arg, res >>

-----------------------------------------------------------------------------
(* Bounds of the model *)

\* longest ASN.1 identifier drawn as an input
MaxNameLen == 3

\* number of assignments in a drawn module
NumAssign == 2

\* longest list of components, named values or named bits drawn as an input
MaxList == 3

\* most lines written to a fragment
MaxLines == 3

\* most levels of indentation of a writer
MaxLevel == 1

\* most module definitions in one input
MaxModules == 2

\* depth of nested Python calls after which the interpreter raises RecursionError
MaxDepth == 5

-----------------------------------------------------------------------------
(* Texts *)

Lit(s) == [lit |-> s]
Id(n) == [id |-> n]
Str(n) == [str |-> n]
NL == [nl |-> TRUE]
Sp(n) == [sp |-> n]
Exc(k) == [exc |-> k]

IsLit(t) == DOMAIN t = {"lit"}
IsId(t) == DOMAIN t = {"id"}
IsStr(t) == DOMAIN t = {"str"}
IsNL(t) == DOMAIN t = {"nl"}
IsSp(t) == DOMAIN t = {"sp"}
IsExc(t) == DOMAIN t = {"exc"}
IsWhite(t) == IsNL(t) \/ IsSp(t)

\* the evaluation that produced this text raised
Raised(text) == \E i \in 1..Len(text) : IsExc(text[i])

\* the first exception raised in the text
RaisedKind(text) ==
    LET i == CHOOSE j \in 1..Len(text) :
                 IsExc(text[j]) /\ \A k \in 1..(j - 1) : ~IsExc(text[k])
    IN text[i].exc

\* F of the value of v, with v evaluated once: a local variable of the code
With(v, F(_)) == CHOOSE r \in { F(x) : x \in { v } } : TRUE

\* the first half and the rest of a sequence of two elements or more
FirstHalf(s) == SubSeq(s, 1, Len(s) \div 2)
SecondHalf(s) == SubSeq(s, Len(s) \div 2 + 1, Len(s))

\* ''.join(seqs)
RECURSIVE Flatten(_)
Flatten(seqs) ==
    With(seqs, LAMBDA s :
        IF s = <<>> THEN <<>>
        ELSE IF Len(s) = 1 THEN s[1]
        ELSE Flatten(FirstHalf(s)) \o Flatten(SecondHalf(s)))

\* sep.join(items)
RECURSIVE Join(_, _)
Join(sep, items) ==
    With(items, LAMBDA its :
        IF its = <<>> THEN <<>>
        ELSE IF Len(its) = 1 THEN its[1]
        ELSE Join(sep, FirstHalf(its)) \o sep \o Join(sep, SecondHalf(its)))

\* str.rstrip()
RECURSIVE RStrip(_)
RStrip(text) ==
    With(text, LAMBDA t :
        IF t # <<>> /\ IsWhite(t[Len(t)]) THEN RStrip(SubSeq(t, 1, Len(t) - 1)) ELSE t)

\* str.lstrip()
RECURSIVE LStrip(_)
LStrip(text) ==
    With(text, LAMBDA t : IF t # <<>> /\ IsWhite(t[1]) THEN LStrip(Tail(t)) ELSE t)

\* str.strip()
Strip(text) == LStrip(RStrip(text))

\* str.split('\n'): one more line than there are line breaks
SplitLines(text) ==
    With(text, LAMBDA t :
    With(SelectSeq([i \in 1..Len(t) |-> i], LAMBDA i : IsNL(t[i])), LAMBDA breaks :
        [k \in 1..(Len(breaks) + 1) |->
            SubSeq(t, IF k = 1 THEN 1 ELSE breaks[k - 1] + 1,
                      IF k = Len(breaks) + 1 THEN Len(t) ELSE breaks[k] - 1)] \o << >>))

-----------------------------------------------------------------------------
(* Names *)

nINTEGER == <<"I","N","T","E","G","E","R">>
nOBJECT_IDENTIFIER == <<"O","B","J","E","C","T"," ","I","D","E","N","T","I","F","I","E","R">>
nBOOLEAN == <<"B","O","O","L","E","A","N">>
nANY == <<"A","N","Y">>
nCHOICE == <<"C","H","O","I","C","E">>
nSEQUENCE == <<"S","E","Q","U","E","N","C","E">>
nSET == <<"S","E","T">>
nSEQUENCE_OF == <<"S","E","Q","U","E","N","C","E"," ","O","F">>
nSET_OF == <<"S","E","T"," ","O","F">>
nENUMERATED == <<"E","N","U","M","E","R","A","T","E","D">>
nBIT_STRING == <<"B","I","T"," ","S","T","R","I","N","G">>
nOCTET_STRING == <<"O","C","T","E","T"," ","S","T","R","I","N","G">>
nISO646String == <<"I","S","O","6","4","6","S","t","r","i","n","g">>
nCHARACTER_STRING == <<"C","H","A","R","A","C","T","E","R"," ","S","T","R","I","N","G">>

\* keyword.kwlist of Python 3
kwlist ==
    { <<"F","a","l","s","e">>,
      <<"N","o","n","e">>,
      <<"T","r","u","e">>,
      <<"a","n","d">>,
      <<"a","s">>,
      <<"a","s","s","e","r","t">>,
      <<"a","s","y","n","c">>,
      <<"a","w","a","i","t">>,
      <<"b","r","e","a","k">>,
      <<"c","l","a","s","s">>,
      <<"c","o","n","t","i","n","u","e">>,
      <<"d","e","f">>,
      <<"d","e","l">>,
      <<"e","l","i","f">>,
      <<"e","l","s","e">>,
      <<"e","x","c","e","p","t">>,
      <<"f","i","n","a","l","l","y">>,
      <<"f","o","r">>,
      <<"f","r","o","m">>,
      <<"g","l","o","b","a","l">>,
      <<"i","f">>,
      <<"i","m","p","o","r","t">>,
      <<"i","n">>,
      <<"i","s">>,
      <<"l","a","m","b","d","a">>,
      <<"n","o","n","l","o","c","a","l">>,
      <<"n","o","t">>,
      <<"o","r">>,
      <<"p","a","s","s">>,
      <<"r","a","i","s","e">>,
      <<"r","e","t","u","r","n">>,
      <<"t","r","y">>,
      <<"w","h","i","l","e">>,
      <<"w","i","t","h">>,
      <<"y","i","e","l","d">> }

\* _ASN1_BUILTIN_TYPES, as pairs << key, value >>
ASN1_BUILTIN_TYPES ==
    << <<<<"A","N","Y">>, "univ.Any">>,
       <<<<"I","N","T","E","G","E","R">>, "univ.Integer">>,
       <<<<"B","O","O","L","E","A","N">>, "univ.Boolean">>,
       <<<<"N","U","L","L">>, "univ.Null">>,
       <<<<"E","N","U","M","E","R","A","T","E","D">>, "univ.Enumerated">>,
       <<<<"R","E","A","L">>, "univ.Real">>,
       <<<<"B","I","T"," ","S","T","R","I","N","G">>, "univ.BitString">>,
       <<<<"O","C","T","E","T"," ","S","T","R","I","N","G">>, "univ.OctetString">>,
       <<<<"C","H","O","I","C","E">>, "univ.Choice">>,
       <<<<"S","E","Q","U","E","N","C","E">>, "univ.Sequence">>,
       <<<<"S","E","T">>, "univ.Set">>,
       <<<<"S","E","Q","U","E","N","C","E"," ","O","F">>, "univ.SequenceOf">>,
       <<<<"S","E","T"," ","O","F">>, "univ.SetOf">>,
       <<<<"O","B","J","E","C","T"," ","I","D","E","N","T","I","F","I","E","R">>, "univ.ObjectIdentifier">>,
       <<<<"U","T","F","8","S","t","r","i","n","g">>, "char.UTF8String">>,
       <<<<"G","e","n","e","r","a","l","S","t","r","i","n","g">>, "char.GeneralString">>,
       <<<<"N","u","m","e","r","i","c","S","t","r","i","n","g">>, "char.NumericString">>,
       <<<<"P","r","i","n","t","a","b","l","e","S","t","r","i","n","g">>, "char.PrintableString">>,
       <<<<"I","A","5","S","t","r","i","n","g">>, "char.IA5String">>,
       <<<<"G","r","a","p","h","i","c","S","t","r","i","n","g">>, "char.GraphicString">>,
       <<<<"G","e","n","e","r","a","l","i","z","e","d","T","i","m","e">>, "useful.GeneralizedTime">>,
       <<<<"U","T","C","T","i","m","e">>, "useful.UTCTime">>,
       <<<<"O","b","j","e","c","t","D","e","s","c","r","i","p","t","o","r">>, "useful.ObjectDescriptor">>,
       <<<<"V","i","s","i","b","l","e","S","t","r","i","n","g">>, "char.VisibleString">>,
       <<<<"T","e","l","e","t","e","x","S","t","r","i","n","g">>, "char.TeletexString">>,
       <<<<"U","n","i","v","e","r","s","a","l","S","t","r","i","n","g">>, "char.UniversalString">>,
       <<<<"B","M","P","S","t","r","i","n","g">>, "char.BMPString">>,
       <<<<"T","6","1","S","t","r","i","n","g">>, "char.T61String">>,
       <<<<"V","i","d","e","o","t","e","x","S","t","r","i","n","g">>, "char.VideotexString">> >>

UpperCase == <<"A","B","C","D","E","F","G","H","I","J","K","L","M","N","O","P","Q","R","S","T","U","V","W","X","Y","Z">>
LowerCase == <<"a","b","c","d","e","f","g","h","i","j","k","l","m","n","o","p","q","r","s","t","u","v","w","x","y","z">>

\* the characters identifiers are drawn from
UpperChars == {"S", "E", "T", "I"}
LowerChars == {"i", "f"}
OtherChars == {"-", "0"}
NameChars == UpperChars \cup LowerChars \cup OtherChars

\* build_identifier(prefix_pattern): one character of the prefix class, then
\* an optional word over [-0-9a-zA-Z]
build_identifier(prefix) ==
    UNION { { <<p>> \o s : p \in prefix, s \in [1..n -> NameChars] } :
            n \in 0..(MaxNameLen - 1) }

identifier == build_identifier(LowerChars)
valuereference == build_identifier(LowerChars)
typereference == build_identifier(UpperChars)
module_reference == build_identifier(UpperChars)

\* str.replace('-', '_')
ReplaceHyphen(name) ==
    [i \in 1..Len(name) |-> IF name[i] = "-" THEN "_" ELSE name[i]]

\* str.lower()
LowerChar(c) ==
    IF \E i \in 1..Len(UpperCase) : UpperCase[i] = c
    THEN LowerCase[CHOOSE i \in 1..Len(UpperCase) : UpperCase[i] = c]
    ELSE c

Lower(name) == [i \in 1..Len(name) |-> LowerChar(name[i])]

_sanitize_identifier(name) ==
    LET replaced == ReplaceHyphen(name)
    IN IF replaced \in kwlist THEN replaced \o <<"_">> ELSE replaced

_sanitize_module(name) == Lower(_sanitize_identifier(name))

InBuiltinTypes(name) ==
    \E i \in 1..Len(ASN1_BUILTIN_TYPES) : ASN1_BUILTIN_TYPES[i][1] = name

BuiltinType(name) ==
    ASN1_BUILTIN_TYPES[CHOOSE i \in 1..Len(ASN1_BUILTIN_TYPES) :
                           ASN1_BUILTIN_TYPES[i][1] = name][2]

\* _translate_type: the pyasn1 class of a built-in type, the sanitized name
\* of any other type
_translate_type(type_name) ==
    LET sanitized == _sanitize_identifier(type_name)
    IN IF InBuiltinTypes(sanitized) THEN Lit(BuiltinType(sanitized))
       ELSE Id(sanitized)

-----------------------------------------------------------------------------
(* support/pygen.py: PythonWriter and PythonFragment *)

indent_size == 4

\* PythonWriter.__init__ / PythonFragment.__init__: an empty buffer, no indent
get_fragment == [buf |-> <<>>, current_indent |-> 0]

push_indent(w) == [w EXCEPT !.current_indent = @ + indent_size]

pop_indent(w) == [w EXCEPT !.current_indent = @ - indent_size]

\* PythonWriter._indent: ' ' * current_indent + line
indent(w, line) ==
    IF w.current_indent > 0 THEN << Sp(w.current_indent) >> \o line ELSE line

\* PythonWriter.write_line, for a line that is not None: an empty line is
\* written without indentation
write_line(w, line) ==
    With(w, LAMBDA v :
        [v EXCEPT !.buf = @ \o (IF line # <<>> THEN indent(v, line) ELSE line) \o << NL >>])

RECURSIVE write_blanks(_, _)
write_blanks(w, count) ==
    IF count = 0 THEN w
    ELSE write_blanks([w EXCEPT !.buf = @ \o << NL >>], count - 1)

RECURSIVE write_lines(_, _)
write_lines(w, lines) ==
    With(w, LAMBDA v :
    With(lines, LAMBDA ls :
        IF ls = <<>> THEN v
        ELSE IF Len(ls) = 1 THEN write_line(v, ls[1])
        ELSE write_lines(write_lines(v, FirstHalf(ls)), SecondHalf(ls))))

\* a mutant of write_block: the lines are written as they are in the block
write_block_as_is(w, block) ==
    [w EXCEPT !.buf = @ \o Flatten([i \in 1..Len(SplitLines(RStrip(block))) |->
                                       SplitLines(RStrip(block))[i] \o << NL >>])]

\* PythonWriter.write_block: reindents after every line break
write_block(w, block) == write_lines(w, SplitLines(RStrip(block)))

\* PythonWriter.write_enumeration
write_enumeration(w, items) == write_block(w, Join(<< Lit(","), NL >>, items))

\* PythonFragment.__str__
str(w) == w.buf

\* a call of a method of a fragment, with its argument
fragment_call(method, a) == [method |-> method, arg |-> a]

after_call(w, c) ==
    CASE c.method = "push_indent" -> push_indent(w)
      [] c.method = "pop_indent" -> pop_indent(w)
      [] c.method = "write_line" -> write_line(w, c.arg)
      [] c.method = "write_blanks" -> write_blanks(w, c.arg)
      [] c.method = "write_block" -> write_block(w, c.arg)
      [] c.method = "write_enumeration" -> write_enumeration(w, c.arg)

\* the fragment after each of the calls made on it, from its states so far
RECURSIVE fragment_after(_, _)
fragment_after(states, calls) ==
    With(states, LAMBDA st :
    With(calls, LAMBDA cs :
        IF cs = << >> THEN st
        ELSE IF Len(cs) = 1 THEN Append(st, after_call(st[Len(st)], cs[1]))
        ELSE fragment_after(fragment_after(st, FirstHalf(cs)), SecondHalf(cs))))

\* the fragment an emitter returns
returned(states) == With(states, LAMBDA st : st[Len(st)])

-----------------------------------------------------------------------------
(* The semantic model (sema.py): nodes *)

None == [ty |-> "None"]

\* None where a name is expected
NoName == << >>

IMPLICIT == "IMPLICIT"
EXPLICIT == "EXPLICIT"
AUTOMATIC == "AUTOMATIC"

SimpleType(name) == [ty |-> "SimpleType", type_name |-> name, constraint |-> None]

DefinedType(name) ==
    [ty |-> "DefinedType", type_name |-> name, module_ref |-> NoName]

\* a type of another module: Module.Type
ExternalType(mod, name) ==
    [ty |-> "DefinedType", type_name |-> name, module_ref |-> mod]

TaggedType(impl, decl) ==
    [ty |-> "TaggedType", class_name |-> "", class_number |-> "0",
     implicitness |-> impl, type_decl |-> decl]

SequenceType(comps) ==
    [ty |-> "SequenceType", type_name |-> nSEQUENCE, components |-> comps]

SetType(comps) == [ty |-> "SetType", type_name |-> nSET, components |-> comps]

ChoiceType(comps) ==
    [ty |-> "ChoiceType", type_name |-> nCHOICE, components |-> comps]

SequenceOfType(decl) ==
    [ty |-> "SequenceOfType", type_name |-> nSEQUENCE_OF, type_decl |-> decl,
     size_constraint |-> None]

SetOfType(decl) ==
    [ty |-> "SetOfType", type_name |-> nSET_OF, type_decl |-> decl,
     size_constraint |-> None]

SelectionType(ident, decl) ==
    [ty |-> "SelectionType", identifier |-> ident, type_decl |-> decl]

NamedType(ident, decl) ==
    [ty |-> "NamedType", identifier |-> ident, type_decl |-> decl]

\* ComponentType: identifier type_decl, with OPTIONAL or DEFAULT value
ComponentType(ident, decl, opt, dflt) ==
    [ty |-> "ComponentType", identifier |-> ident, type_decl |-> decl,
     optional |-> opt, default_value |-> dflt, components_of_type |-> None]

\* ComponentType: COMPONENTS OF decl
ComponentsOf(decl) ==
    [ty |-> "ComponentType", identifier |-> NoName, type_decl |-> None,
     optional |-> FALSE, default_value |-> None, components_of_type |-> decl]

ExtensionMarker == [ty |-> "ExtensionMarker"]

NamedValue(ident, val) == [ty |-> "NamedValue", identifier |-> ident, value |-> val]

ValueListType(name, vals) ==
    [ty |-> "ValueListType", type_name |-> name, named_values |-> vals,
     constraint |-> None]

BitStringType(bits) ==
    [ty |-> "BitStringType", type_name |-> nBIT_STRING, named_bits |-> bits,
     constraint |-> None]

\* a literal value, kept as its lexeme
Value(lexeme) == [ty |-> "Value", value |-> lexeme]

ReferencedValue(ref) == [ty |-> "ReferencedValue", name |-> ref]

TypeAssignment(name, decl) ==
    [ty |-> "TypeAssignment", type_name |-> name, type_decl |-> decl]

ValueAssignment(name, decl, val) ==
    [ty |-> "ValueAssignment", value_name |-> name, type_decl |-> decl, value |-> val]

Module(mname, dflt, assigns) ==
    [name |-> mname, tag_default |-> dflt, assignments |-> assigns]

ConstructedTypes == {"SequenceType", "SetType", "ChoiceType"}

IsNone(t) == t.ty = "None"

\* the failure of a resolver service
Error(kind) == [ty |-> "Error", kind |-> kind]

IsError(t) == t.ty = "Error"

\* type_name of a type node; a tagged type has the name of the type it tags
RECURSIVE type_name(_)
type_name(t) ==
    IF t.ty = "TaggedType" THEN type_name(t.type_decl)
    ELSE IF t.ty \in {"None", "Error", "SelectionType"} THEN NoName
    ELSE t.type_name

\* Assignment.reference_name
reference_name(a) == IF a.ty = "TypeAssignment" THEN a.type_name ELSE a.value_name

-----------------------------------------------------------------------------
(* The semantic model: the resolver services of Module *)

HasAssignment(module, name) ==
    \E i \in 1..Len(module.assignments) : reference_name(module.assignments[i]) = name

FindAssignment(module, name) ==
    module.assignments[CHOOSE i \in 1..Len(module.assignments) :
                           reference_name(module.assignments[i]) = name]

\* Module.resolve_type_decl: follow DefinedType and TaggedType chains to the
\* underlying constructed or primitive type
RECURSIVE resolve_type_decl(_, _, _)
resolve_type_decl(module, t, depth) ==
    IF depth > MaxDepth THEN Error("RecursionError")
    ELSE IF t.ty = "DefinedType"
    THEN IF HasAssignment(module, t.type_name)
              /\ FindAssignment(module, t.type_name).ty = "TypeAssignment"
         THEN resolve_type_decl(module, FindAssignment(module, t.type_name).type_decl,
                                depth + 1)
         ELSE Error("UndefinedReference")
    ELSE IF t.ty = "TaggedType"
    THEN resolve_type_decl(module, t.type_decl, depth + 1)
    ELSE t

\* Module.resolve_selection_type: the type of the named alternative of the
\* referenced CHOICE, None when there is none
resolve_selection_type(module, t, depth) ==
    LET choice == resolve_type_decl(module, t.type_decl, depth)
    IN IF IsError(choice) THEN choice
       ELSE IF choice.ty \notin ConstructedTypes THEN Error("AttributeError")
       ELSE IF \E i \in 1..Len(choice.components) :
                    /\ choice.components[i].ty \in {"NamedType", "ComponentType"}
                    /\ choice.components[i].identifier = t.identifier
       THEN choice.components[CHOOSE i \in 1..Len(choice.components) :
                /\ choice.components[i].ty \in {"NamedType", "ComponentType"}
                /\ choice.components[i].identifier = t.identifier
                /\ \A j \in 1..(i - 1) :
                      ~(/\ choice.components[j].ty \in {"NamedType", "ComponentType"}
                        /\ choice.components[j].identifier = t.identifier)].type_decl
       ELSE None

\* the tagged type is a CHOICE or an open type
IsOpenType(t) ==
    \/ t.ty = "ChoiceType"
    \/ t.ty = "SimpleType" /\ t.type_name = nANY

\* the module's tag default applied to a tag without marker
TagDefault(module) ==
    IF module.tag_default \in {IMPLICIT, AUTOMATIC} THEN IMPLICIT ELSE EXPLICIT

\* Module.resolve_tag_implicitness
resolve_tag_implicitness(module, implicitness, inner) ==
    LET written == IF implicitness = "DEFAULT" THEN TagDefault(module)
                   ELSE implicitness
        resolved == resolve_type_decl(module, inner, 0)
    IN IF written = IMPLICIT /\ IsOpenType(resolved) THEN EXPLICIT ELSE written

-----------------------------------------------------------------------------
(* The semantic model: dependency_sort *)

\* the names a node refers to, in the order of a pre-order walk: every
\* DefinedType and ReferencedValue under it, COMPONENTS OF included
RECURSIVE references(_)
references(t) ==
    CASE t.ty = "DefinedType" -> << t.type_name >>
      [] t.ty = "ReferencedValue" -> << t.name >>
      [] t.ty \in {"TaggedType", "SequenceOfType", "SetOfType", "NamedType",
                   "SelectionType"} -> references(t.type_decl)
      [] t.ty \in ConstructedTypes ->
            Flatten([i \in 1..Len(t.components) |-> references(t.components[i])])
      [] t.ty = "ComponentType" ->
            IF ~IsNone(t.components_of_type) THEN references(t.components_of_type)
            ELSE references(t.type_decl) \o references(t.default_value)
      [] t.ty = "TypeAssignment" -> references(t.type_decl)
      [] t.ty = "ValueAssignment" -> references(t.type_decl) \o references(t.value)
      [] OTHER -> << >>

IndexOfName(assignments, name) ==
    CHOOSE i \in 1..Len(assignments) : reference_name(assignments[i]) = name

\* the dependency graph: for every assignment, the assignments of the module
\* it refers to (as indices into the assignment list)
DependencyGraph(assignments) ==
    [i \in 1..Len(assignments) |->
        LET refs == references(assignments[i])
        IN SelectSeq([k \in 1..Len(refs) |->
                         IF \E j \in 1..Len(assignments) :
                                reference_name(assignments[j]) = refs[k]
                         THEN IndexOfName(assignments, refs[k]) ELSE 0],
                     LAMBDA j : j # 0)]

Min(a, b) == IF a < b THEN a ELSE b

OnStack(st, n) == \E i \in 1..Len(st.stack) : st.stack[i] = n

\* pop the stack down to node: the component, in the order popped
PopComponent(st, node) ==
    LET top == CHOOSE i \in 1..Len(st.stack) : st.stack[i] = node
    IN [st EXCEPT !.stack = SubSeq(@, top + 1, Len(@)),
                  !.result = Append(@, SubSeq(st.stack, 1, top))]

\* Tarjan's algorithm; index 0 marks a node not yet visited, the stack has
\* its top first
RECURSIVE strongconnect(_, _, _), visit_successors(_, _, _, _)
strongconnect(graph, st, node) ==
    LET entered == [st EXCEPT !.index[node] = st.counter,
                              !.lowlink[node] = st.counter,
                              !.counter = @ + 1,
                              !.stack = << node >> \o @]
        visited == visit_successors(graph, entered, node, graph[node])
    IN IF visited.lowlink[node] = visited.index[node]
       THEN PopComponent(visited, node)
       ELSE visited

visit_successors(graph, st, node, successors) ==
    IF successors = << >> THEN st
    ELSE LET s == Head(successors)
             st1 == IF st.index[s] = 0
                    THEN LET r == strongconnect(graph, st, s)
                         IN [r EXCEPT !.lowlink[node] = Min(@, r.lowlink[s])]
                    ELSE IF OnStack(st, s)
                    THEN [st EXCEPT !.lowlink[node] = Min(@, st.index[s])]
                    ELSE st
         IN visit_successors(graph, st1, node, Tail(successors))

RECURSIVE tarjan_from(_, _, _)
tarjan_from(graph, st, node) ==
    IF node > Len(graph) THEN st
    ELSE tarjan_from(graph,
                     IF st.index[node] = 0 THEN strongconnect(graph, st, node) ELSE st,
                     node + 1)

\* the strongly connected components, in the order Tarjan's algorithm
\* completes them: a component is completed after every component it
\* refers to
tarjan(graph) ==
    tarjan_from(graph,
                [index |-> [i \in 1..Len(graph) |-> 0],
                 lowlink |-> [i \in 1..Len(graph) |-> 0],
                 counter |-> 1, stack |-> << >>, result |-> << >>],
                1).result

\* dependency_sort: the list of components, each a list of assignments
dependency_sort(assignments) ==
    LET sccs == tarjan(DependencyGraph(assignments))
    IN [c \in 1..Len(sccs) |-> [k \in 1..Len(sccs[c]) |-> assignments[sccs[c][k]]]]

-----------------------------------------------------------------------------
(* pyasn1gen.py: values, constraints and tags *)

\* _ASN1_BUILTIN_VALUES
ASN1_BUILTIN_VALUES(lexeme) ==
    IF lexeme = "FALSE" THEN "0" ELSE IF lexeme = "TRUE" THEN "1" ELSE lexeme

\* Pyasn1Backend.translate_value
translate_value(module, value) ==
    IF value.ty = "ReferencedValue" THEN << Id(_sanitize_identifier(value.name)) >>
    ELSE IF value.ty = "Value" THEN << Lit(ASN1_BUILTIN_VALUES(value.value)) >>
    ELSE << Exc("TypeError") >>

\* _translate_tag_class
translate_tag_class(tag_class) ==
    CASE tag_class = "APPLICATION" -> "tag.tagClassApplication"
      [] tag_class = "PRIVATE" -> "tag.tagClassPrivate"
      [] tag_class = "UNIVERSAL" -> "tag.tagClassUniversal"
      [] OTHER -> "tag.tagClassContext"

\* Pyasn1Backend.build_tag_expr
build_tag_expr(module, tag_def) ==
    LET tagged_type_decl == resolve_type_decl(module, tag_def.type_decl, 0)
    IN IF IsError(tagged_type_decl) THEN << Exc(tagged_type_decl.kind) >>
       ELSE << Lit("tag.Tag("), Lit(translate_tag_class(tag_def.class_name)), Lit(", "),
               Lit(IF tagged_type_decl.ty \in ConstructedTypes
                   THEN "tag.tagFormatConstructed" ELSE "tag.tagFormatSimple"),
               Lit(", "), Lit(tag_def.class_number), Lit(")") >>

\* Pyasn1Backend.build_constraint_expr
build_constraint_expr(module, constraint) ==
    CASE constraint.ty = "SingleValueConstraint" ->
            << Lit("constraint.SingleValueConstraint(") >>
               \o translate_value(module, constraint.value) \o << Lit(")") >>
      [] constraint.ty = "SizeConstraint" ->
            IF constraint.nested.ty = "SingleValueConstraint"
            THEN << Lit("constraint.ValueSizeConstraint(") >>
                    \o translate_value(module, constraint.nested.value) \o << Lit(", ") >>
                    \o translate_value(module, constraint.nested.value) \o << Lit(")") >>
            ELSE IF constraint.nested.ty = "ValueRangeConstraint"
            THEN << Lit("constraint.ValueSizeConstraint(") >>
                    \o translate_value(module, constraint.nested.min_value) \o << Lit(", ") >>
                    \o translate_value(module, constraint.nested.max_value) \o << Lit(")") >>
            ELSE << Exc("Unrecognized nested size constraint type") >>
      [] constraint.ty = "ValueRangeConstraint" ->
            << Lit("constraint.ValueRangeConstraint(") >>
               \o translate_value(module, constraint.min_value) \o << Lit(", ") >>
               \o translate_value(module, constraint.max_value) \o << Lit(")") >>
      [] OTHER -> << Exc("Unrecognized constraint type") >>

\* "('%s', %s)" % (v.identifier, v.value)
named_value_pair(v) ==
    << Lit("('"), Str(v.identifier), Lit("', "), Lit(v.value), Lit(")") >>

\* a mutant of named_values_of: the named values after the first
\* ExtensionMarker are lost
named_values_until_marker(values) ==
    LET first == IF \E i \in 1..Len(values) : values[i].ty = "ExtensionMarker"
                 THEN CHOOSE i \in 1..Len(values) :
                         /\ values[i].ty = "ExtensionMarker"
                         /\ \A j \in 1..(i - 1) : values[j].ty # "ExtensionMarker"
                 ELSE Len(values) + 1
    IN [i \in 1..(first - 1) |-> named_value_pair(values[i])]

\* the named values of a value list that are not ExtensionMarker, as pairs
named_values_of(values) ==
    LET kept == SelectSeq(values, LAMBDA v : v.ty # "ExtensionMarker")
    IN [i \in 1..Len(kept) |-> named_value_pair(kept[i])]

\* the named bits of a bit string, as pairs
named_bits_of(bits) == [i \in 1..Len(bits) |-> named_value_pair(bits[i])]

\* Pyasn1Backend.build_object_identifier_value
build_object_identifier_value(module, t) ==
    << Lit("_OID(") >>
       \o Join(<< Lit(", ") >>,
               [i \in 1..Len(t.components) |-> << Lit(t.components[i]) >>])
       \o << Lit(")") >>

-----------------------------------------------------------------------------
(* pyasn1gen.py: inline definitions *)

\* a mutant of tag_method: only EXPLICIT is expected
tag_method_explicit_only(implicitness, implicit_name, explicit_name) ==
    IF implicitness = EXPLICIT THEN << Lit(explicit_name) >>
    ELSE << Exc("Unexpected implicitness") >>

\* a mutant of tag_method: the two branches are swapped
tag_method_swapped(implicitness, implicit_name, explicit_name) ==
    IF implicitness = IMPLICIT THEN << Lit(explicit_name) >>
    ELSE IF implicitness = EXPLICIT THEN << Lit(implicit_name) >>
    ELSE << Exc("Unexpected implicitness") >>

\* the emitted name of the tagging method, or the exception of the else branch
tag_method(implicitness, implicit_name, explicit_name) ==
    IF implicitness = IMPLICIT THEN << Lit(implicit_name) >>
    ELSE IF implicitness = EXPLICIT THEN << Lit(explicit_name) >>
    ELSE << Exc("Unexpected implicitness") >>

\* Pyasn1Backend.inline_simple_type
inline_simple_type(module, t) ==
    << _translate_type(t.type_name), Lit("()") >>
       \o (IF ~IsNone(t.constraint)
           THEN << Lit(".subtype(subtypeSpec=") >>
                   \o build_constraint_expr(module, t.constraint) \o << Lit(")") >>
           ELSE << >>)

\* Pyasn1Backend.inline_bitstring_type
inline_bitstring_type(module, t) == inline_simple_type(module, t)

\* Pyasn1Backend.inline_defined_type
inline_defined_type(module, t) ==
    (IF t.module_ref # NoName /\ t.module_ref # module.name
     THEN << Id(_sanitize_module(t.module_ref)), Lit(".") >> ELSE << >>)
       \o << _translate_type(t.type_name), Lit("()") >>

\* Pyasn1Backend.inline_value_list_type
inline_value_list_type(module, t) ==
    IF t.named_values # << >>
    THEN << _translate_type(t.type_name), Lit("(namedValues=namedval.NamedValues(") >>
            \o Join(<< Lit(", ") >>, named_values_of(t.named_values))
            \o << Lit("))") >>
    ELSE << _translate_type(t.type_name), Lit("()") >>

\* the size constraint appended by inline_sequenceof_type and inline_setof_type
inline_size_constraint(module, t) ==
    IF ~IsNone(t.size_constraint)
    THEN << Lit(".subtype(subtypeSpec=") >>
            \o build_constraint_expr(module, t.size_constraint) \o << Lit(")") >>
    ELSE << >>

RECURSIVE generate_expr(_, _, _)
RECURSIVE inline_component_types(_, _, _)
RECURSIVE inline_component_type(_, _, _)
RECURSIVE inline_constructed_type(_, _, _)
RECURSIVE inline_tagged_type(_, _, _)
RECURSIVE inline_selection_type(_, _, _)

\* the components for which inline_component_type writes a namedtype
\* expression, in the order written: the components that are not
\* ExtensionMarker, with the components of the included type, walked the same
\* way, in the place of a COMPONENTS OF
RECURSIVE components_emitted(_, _, _)
components_emitted(module, components, depth) ==
    LET kept == SelectSeq(components, LAMBDA c : c.ty # "ExtensionMarker")
        walk(c) ==
            IF depth >= MaxDepth THEN << Error("RecursionError") >>
            ELSE IF c.ty = "ComponentType" /\ ~IsNone(c.components_of_type)
            THEN LET included == resolve_type_decl(module, c.components_of_type, 0)
                 IN IF IsError(included) THEN << included >>
                    ELSE IF included.ty \notin ConstructedTypes
                    THEN << Error("AttributeError") >>
                    ELSE components_emitted(module, included.components, depth + 1)
            ELSE IF depth + 1 >= MaxDepth THEN << Error("RecursionError") >>
            ELSE << c >>
    IN Flatten([i \in 1..Len(kept) |-> walk(kept[i])])

\* a mutant of inline_component_types: a COMPONENTS OF member is dropped as an
\* ExtensionMarker is
inline_component_types_without_includes(module, components, depth) ==
    LET kept == SelectSeq(components,
                          LAMBDA c : /\ c.ty # "ExtensionMarker"
                                     /\ ~(c.ty = "ComponentType"
                                             /\ ~IsNone(c.components_of_type)))
    IN With([i \in 1..Len(kept) |-> generate_expr(module, kept[i], depth)] \o << >>,
            LAMBDA component_exprs : str(write_enumeration(get_fragment, component_exprs)))

\* Pyasn1Backend.inline_component_types: the expressions of the components
\* that are not ExtensionMarker, written as an enumeration; the list of
\* expressions is complete before it is written
inline_component_types(module, components, depth) ==
    LET kept == SelectSeq(components, LAMBDA c : c.ty # "ExtensionMarker")
    IN With([i \in 1..Len(kept) |-> generate_expr(module, kept[i], depth)] \o << >>,
            LAMBDA component_exprs : str(write_enumeration(get_fragment, component_exprs)))

\* Pyasn1Backend.inline_constructed_type
inline_constructed_type(module, t, depth) ==
    With(inline_component_types(module, t.components, depth), LAMBDA block :
        LET f1 == write_line(get_fragment,
                             << _translate_type(t.type_name),
                                Lit("(componentType=namedtype.NamedTypes(") >>)
            f2 == write_block(push_indent(f1), block)
            f3 == write_line(pop_indent(f2), << Lit("))") >>)
        IN str(f3))

\* Pyasn1Backend.inline_tagged_type
inline_tagged_type(module, t, depth) ==
    LET implicitness == resolve_tag_implicitness(module, t.implicitness, t.type_decl)
        tag_implicitness == tag_method(implicitness, "implicitTag", "explicitTag")
    IN IF Raised(tag_implicitness) THEN tag_implicitness
       ELSE generate_expr(module, t.type_decl, depth)
               \o << Lit(".subtype(") >> \o tag_implicitness \o << Lit("=") >>
               \o build_tag_expr(module, t) \o << Lit(")") >>

\* a mutant of inline_selection_type: without the named alternative, the
\* CHOICE itself is written
inline_selection_type_falls_back(module, t, depth) ==
    With(resolve_selection_type(module, t, 0), LAMBDA selected_type :
        IF IsError(selected_type) THEN << Exc(selected_type.kind) >>
        ELSE IF IsNone(selected_type) THEN generate_expr(module, t.type_decl, depth)
        ELSE generate_expr(module, selected_type, depth))

\* Pyasn1Backend.inline_selection_type
inline_selection_type(module, t, depth) ==
    With(resolve_selection_type(module, t, 0), LAMBDA selected_type :
        IF IsError(selected_type) THEN << Exc(selected_type.kind) >>
        ELSE IF IsNone(selected_type) THEN << Exc("Found no member") >>
        ELSE generate_expr(module, selected_type, depth))

\* Pyasn1Backend.inline_component_type
inline_component_type(module, t, depth) ==
    IF ~IsNone(t.components_of_type)
    THEN With(resolve_type_decl(module, t.components_of_type, 0),
              LAMBDA included_type_decl :
                 IF IsError(included_type_decl) THEN << Exc(included_type_decl.kind) >>
                 ELSE IF included_type_decl.ty \notin ConstructedTypes
                 THEN << Exc("AttributeError") >>
                 ELSE With(inline_component_types(module, included_type_decl.components,
                                                  depth),
                           LAMBDA block : Strip(block)))
    ELSE IF t.optional
    THEN << Lit("namedtype.OptionalNamedType('"), Str(t.identifier), Lit("', ") >>
            \o generate_expr(module, t.type_decl, depth) \o << Lit(")") >>
    ELSE IF ~IsNone(t.default_value)
    THEN << Lit("namedtype.DefaultedNamedType('"), Str(t.identifier), Lit("', ") >>
            \o generate_expr(module, t.type_decl, depth)
            \o << Lit(".subtype(value=") >> \o translate_value(module, t.default_value)
            \o << Lit(")"), Lit(")") >>
    ELSE << Lit("namedtype.NamedType('"), Str(t.identifier), Lit("', ") >>
            \o generate_expr(module, t.type_decl, depth) \o << Lit(")") >>

\* Pyasn1Backend.inline_named_type
inline_named_type(module, t, depth) ==
    << Lit("namedtype.NamedType('"), Str(t.identifier), Lit("', ") >>
       \o generate_expr(module, t.type_decl, depth) \o << Lit(")") >>

\* Pyasn1Backend.inline_sequenceof_type
inline_sequenceof_type(module, t, depth) ==
    << Lit("univ.SequenceOf(componentType=") >>
       \o generate_expr(module, t.type_decl, depth) \o << Lit(")") >>
       \o inline_size_constraint(module, t)

\* Pyasn1Backend.inline_setof_type
inline_setof_type(module, t, depth) ==
    << Lit("univ.SetOf(componentType=") >>
       \o generate_expr(module, t.type_decl, depth) \o << Lit(")") >>
       \o inline_size_constraint(module, t)

\* Pyasn1Backend.generate_expr: dispatch through inline_generators; depth
\* counts the nested calls of generate_expr
generate_expr(module, t, depth) ==
    IF depth >= MaxDepth THEN << Exc("RecursionError") >>
    ELSE CASE t.ty = "TaggedType" -> inline_tagged_type(module, t, depth + 1)
           [] t.ty = "SelectionType" -> inline_selection_type(module, t, depth + 1)
           [] t.ty = "SimpleType" -> inline_simple_type(module, t)
           [] t.ty = "DefinedType" -> inline_defined_type(module, t)
           [] t.ty = "ComponentType" -> inline_component_type(module, t, depth + 1)
           [] t.ty = "NamedType" -> inline_named_type(module, t, depth + 1)
           [] t.ty = "SequenceOfType" -> inline_sequenceof_type(module, t, depth + 1)
           [] t.ty = "SetOfType" -> inline_setof_type(module, t, depth + 1)
           [] t.ty = "ValueListType" -> inline_value_list_type(module, t)
           [] t.ty \in ConstructedTypes -> inline_constructed_type(module, t, depth + 1)
           [] t.ty = "BitStringType" -> inline_bitstring_type(module, t)
           [] OTHER -> << Exc("KeyError") >>

-----------------------------------------------------------------------------
(* pyasn1gen.py: definitions *)

\* the subtypeSpec line of defn_value_list_type, defn_bitstring_type and
\* defn_collection_type
subtype_spec_line(module, w, class_name, constraint) ==
    IF ~IsNone(constraint)
    THEN write_line(w, << class_name, Lit(".subtypeSpec=") >>
                          \o build_constraint_expr(module, constraint))
    ELSE w

\* Pyasn1Backend.defn_simple_type: None (the empty text) without constraint
defn_simple_type(module, class_name, t) ==
    IF ~IsNone(t.constraint)
    THEN << class_name, Lit(".subtypeSpec = ") >>
            \o build_constraint_expr(module, t.constraint)
    ELSE << >>

\* Pyasn1Backend.defn_defined_type
defn_defined_type(module, class_name, t) == << >>

\* Pyasn1Backend.defn_selection_type
defn_selection_type(module, class_name, t) == << >>

\* the fragment of defn_constructed_type after each of its calls
defn_constructed_type_calls(module, class_name, t) ==
    fragment_after(<< get_fragment >>,
        << fragment_call("write_line",
               << class_name, Lit(".componentType = namedtype.NamedTypes(") >>),
           fragment_call("push_indent", << >>),
           fragment_call("write_block", inline_component_types(module, t.components, 0)),
           fragment_call("pop_indent", << >>),
           fragment_call("write_line", << Lit(")") >>) >>)

\* Pyasn1Backend.defn_constructed_type
defn_constructed_type(module, class_name, t) ==
    str(returned(defn_constructed_type_calls(module, class_name, t)))

\* the namedValues block of defn_value_list_type and defn_bitstring_type: the
\* fragment after each call
named_values_block_calls(w, class_name, pairs) ==
    Tail(fragment_after(<< w >>,
        << fragment_call("write_line",
               << class_name, Lit(".namedValues = namedval.NamedValues(") >>),
           fragment_call("push_indent", << >>),
           fragment_call("write_enumeration", pairs),
           fragment_call("pop_indent", << >>),
           fragment_call("write_line", << Lit(")") >>) >>))

named_values_block(w, class_name, pairs) ==
    returned(named_values_block_calls(w, class_name, pairs))

\* the fragment of defn_value_list_type after each of its calls
defn_value_list_type_calls(module, class_name, t) ==
    With(<< get_fragment >>
            \o (IF t.named_values # << >>
                THEN named_values_block_calls(get_fragment, class_name,
                                              named_values_of(t.named_values))
                ELSE << >>),
         LAMBDA st :
            Append(st, subtype_spec_line(module, st[Len(st)], class_name, t.constraint)))

\* Pyasn1Backend.defn_value_list_type
defn_value_list_type(module, class_name, t) ==
    str(returned(defn_value_list_type_calls(module, class_name, t)))

\* the fragment of defn_bitstring_type after each of its calls
defn_bitstring_type_calls(module, class_name, t) ==
    With(<< get_fragment >>
            \o (IF t.named_bits # << >>
                THEN named_values_block_calls(get_fragment, class_name,
                                              named_bits_of(t.named_bits))
                ELSE << >>),
         LAMBDA st :
            Append(st, subtype_spec_line(module, st[Len(st)], class_name, t.constraint)))

\* Pyasn1Backend.defn_bitstring_type
defn_bitstring_type(module, class_name, t) ==
    str(returned(defn_bitstring_type_calls(module, class_name, t)))

\* Pyasn1Backend.defn_collection_type
defn_collection_type(module, class_name, t) ==
    LET f1 == write_line(get_fragment,
                         << class_name, Lit(".componentType = ") >>
                            \o generate_expr(module, t.type_decl, 0))
    IN str(subtype_spec_line(module, f1, class_name, t.size_constraint))

RECURSIVE generate_defn(_, _, _, _)

\* Pyasn1Backend.defn_tagged_type
defn_tagged_type(module, class_name, t, depth) ==
    LET implicitness == resolve_tag_implicitness(module, t.implicitness, t.type_decl)
        tag_implicitness == tag_method(implicitness, "tagImplicitly", "tagExplicitly")
        base_type == type_name(t.type_decl)
        nested_dfn == generate_defn(module, class_name, t.type_decl, depth)
    IN IF Raised(tag_implicitness) THEN tag_implicitness
       ELSE IF base_type = NoName THEN << Exc("AttributeError") >>
       ELSE LET f1 == write_line(get_fragment,
                          << class_name, Lit(".tagSet = "), _translate_type(base_type),
                             Lit(".tagSet.") >> \o tag_implicitness \o << Lit("(") >>
                             \o build_tag_expr(module, t) \o << Lit(")") >>)
            IN str(IF nested_dfn # << >> THEN write_line(f1, nested_dfn) ELSE f1)

\* Pyasn1Backend.generate_defn: dispatch through defn_generators
generate_defn(module, class_name, t, depth) ==
    IF depth >= MaxDepth THEN << Exc("RecursionError") >>
    ELSE CASE t.ty \in ConstructedTypes -> defn_constructed_type(module, class_name, t)
           [] t.ty \in {"SequenceOfType", "SetOfType"} ->
                 defn_collection_type(module, class_name, t)
           [] t.ty = "TaggedType" -> defn_tagged_type(module, class_name, t, depth + 1)
           [] t.ty = "SelectionType" -> defn_selection_type(module, class_name, t)
           [] t.ty = "SimpleType" -> defn_simple_type(module, class_name, t)
           [] t.ty = "DefinedType" -> defn_defined_type(module, class_name, t)
           [] t.ty = "ValueListType" -> defn_value_list_type(module, class_name, t)
           [] t.ty = "BitStringType" -> defn_bitstring_type(module, class_name, t)
           [] OTHER -> << Exc("KeyError") >>

\* Pyasn1Backend.generate_definition: None (the empty text) for a value
\* assignment
generate_definition(module, assignment) ==
    IF assignment.ty \notin {"ValueAssignment", "TypeAssignment"}
    THEN << Exc("Unexpected assignment type") >>
    ELSE IF assignment.ty = "ValueAssignment" THEN << >>
    ELSE generate_defn(module, _translate_type(assignment.type_name),
                       assignment.type_decl, 0)

-----------------------------------------------------------------------------
(* pyasn1gen.py: declarations *)

\* the fragment of decl_type_assignment after each of its calls
decl_type_assignment_calls(assigned_type, base_type) ==
    fragment_after(<< get_fragment >>,
        << fragment_call("write_line",
               << Lit("class "), _translate_type(assigned_type),
                  Lit("("), _translate_type(base_type), Lit("):") >>),
           fragment_call("push_indent", << >>),
           fragment_call("write_line", << Lit("pass") >>),
           fragment_call("pop_indent", << >>) >>)

\* Pyasn1Backend.decl_type_assignment
decl_type_assignment(module, assignment) ==
    LET type_decl == IF assignment.type_decl.ty = "SelectionType"
                     THEN resolve_selection_type(module, assignment.type_decl, 0)
                     ELSE assignment.type_decl
        base_type == type_name(type_decl)
    IN IF IsError(type_decl) THEN << Exc(type_decl.kind) >>
       ELSE IF base_type = NoName THEN << Exc("AttributeError") >>
       ELSE str(returned(decl_type_assignment_calls(assignment.type_name, base_type)))

\* Pyasn1Backend.build_value_construct_expr
build_value_construct_expr(module, type_decl, value) ==
    IF value.ty = "ObjectIdentifierValue" THEN build_object_identifier_value(module, value)
    ELSE LET root_type == resolve_type_decl(module, type_decl, 0)
         IN IF type_name(type_decl) = NoName THEN << Exc("AttributeError") >>
            ELSE IF IsError(root_type) THEN << Exc(root_type.kind) >>
            ELSE << _translate_type(type_name(type_decl)), Lit("(") >>
                    \o translate_value(module, value) \o << Lit(")") >>

\* Pyasn1Backend.decl_value_assignment
decl_value_assignment(module, assignment) ==
    << Id(_sanitize_identifier(assignment.value_name)), Lit(" = ") >>
       \o build_value_construct_expr(module, assignment.type_decl, assignment.value)

\* Pyasn1Backend.generate_decl: dispatch through decl_generators
generate_decl(module, t) ==
    CASE t.ty = "TypeAssignment" -> decl_type_assignment(module, t)
      [] t.ty = "ValueAssignment" -> decl_value_assignment(module, t)
      [] OTHER -> << Exc("KeyError") >>

\* the fragment of generate_OID after each of its calls
generate_OID_calls ==
    fragment_after(<< get_fragment >>,
        << fragment_call("write_line", << Lit("def _OID(*components):") >>),
           fragment_call("push_indent", << >>),
           fragment_call("write_line", << Lit("output = []") >>),
           fragment_call("write_line", << Lit("for x in tuple(components):") >>),
           fragment_call("push_indent", << >>),
           fragment_call("write_line",
                         << Lit("if isinstance(x, univ.ObjectIdentifier):") >>),
           fragment_call("push_indent", << >>),
           fragment_call("write_line", << Lit("output.extend(list(x))") >>),
           fragment_call("pop_indent", << >>),
           fragment_call("write_line", << Lit("else:") >>),
           fragment_call("push_indent", << >>),
           fragment_call("write_line", << Lit("output.append(int(x))") >>),
           fragment_call("pop_indent", << >>),
           fragment_call("pop_indent", << >>),
           fragment_call("write_blanks", 1),
           fragment_call("write_line", << Lit("return univ.ObjectIdentifier(output)") >>),
           fragment_call("pop_indent", << >>),
           fragment_call("pop_indent", << >>) >>)

\* Pyasn1Backend.generate_OID
generate_OID == str(returned(generate_OID_calls))

-----------------------------------------------------------------------------
(* pyasn1gen.py: Pyasn1Backend.generate_code, one step per block written *)

\* a mutant of HasObjectIdentifierValue: only the first assignment is looked at
HasObjectIdentifierValue_of_first_assignment(module) ==
    /\ Len(module.assignments) > 0
    /\ module.assignments[1].ty = "ValueAssignment"
    /\ module.assignments[1].value.ty = "ObjectIdentifierValue"

\* the module has an object identifier value among its descendants
HasObjectIdentifierValue(module) ==
    \E i \in 1..Len(module.assignments) :
        /\ module.assignments[i].ty = "ValueAssignment"
        /\ module.assignments[i].value.ty = "ObjectIdentifierValue"

\* the import lines: one for every referenced module but the module itself
import_lines(w, modules) ==
    write_lines(w, [i \in 1..Len(SelectSeq(modules, LAMBDA m : ~m.is_self)) |->
                       << Lit("import "),
                          Id(_sanitize_module(
                                SelectSeq(modules, LAMBDA m : ~m.is_self)[i].name)) >>])

\* a mutant of component_at: the components are walked last to first
component_at_reversed(components, i) == components[Len(components) + 1 - i]

\* the component of the i-th iteration of the loop over assignment_components
component_at(components, i) == components[i]

\* a mutant of after_decl: the definition follows its declaration at once
after_decl_interleaved(component, i) == [pc |-> "defn", ai |-> i]

\* a mutant of after_decl: the loop over the declarations does not advance
after_decl_repeating(component, i) == [pc |-> "decl", ai |-> i]

\* the position after the declaration of the i-th assignment of a component:
\* the next declaration, the first definition after the last declaration
after_decl(component, i) ==
    IF i < Len(component) THEN [pc |-> "decl", ai |-> i + 1]
    ELSE [pc |-> "defn", ai |-> 1]

\* a mutant of after_defn: generate_code returns after the first component
after_defn_first_component_only(components, c, i) ==
    IF i < Len(component_at(components, c)) THEN [pc |-> "defn", ci |-> c, ai |-> i + 1]
    ELSE [pc |-> "done", ci |-> c, ai |-> i]

\* the position after the definition of the i-th assignment of a component
after_defn(components, c, i) ==
    IF i < Len(component_at(components, c)) THEN [pc |-> "defn", ci |-> c, ai |-> i + 1]
    ELSE IF c < Len(components) THEN [pc |-> "decl", ci |-> c + 1, ai |-> 1]
    ELSE [pc |-> "done", ci |-> c, ai |-> i]

\* a mutant of WriteHeader: the assignments of the module are sorted in place
WriteHeader_sorting_in_place ==
    /\ pc = "start"
    /\ LET w1 == write_line(out, << Lit("from pyasn1.type import univ, char, namedtype, namedval, tag, constraint, useful") >>)
           w2 == write_blanks(import_lines(w1, referenced_modules), 2)
           w3 == IF HasObjectIdentifierValue(sema_module)
                 THEN write_blanks(write_block(w2, generate_OID), 2)
                 ELSE w2
           components == dependency_sort(sema_module.assignments)
       IN /\ out' = w3
          /\ assignment_components' = components
          /\ sema_module' = [sema_module EXCEPT !.assignments = Flatten(components)]
          /\ pc' = IF Len(components) = 0 THEN "done" ELSE "decl"
    /\ ci' = 1
    /\ ai' = 1
    /\ UNCHANGED << referenced_modules, log, arg, res >>

\* generate_code up to the loop: the import lines, _OID when the module has
\* an object identifier value, and the dependency sort
WriteHeader ==
    /\ pc = "start"
    /\ LET w1 == write_line(out, << Lit("from pyasn1.type import univ, char, namedtype, namedval, tag, constraint, useful") >>)
           w2 == write_blanks(import_lines(w1, referenced_modules), 2)
           w3 == IF HasObjectIdentifierValue(sema_module)
                 THEN write_blanks(write_block(w2, generate_OID), 2)
                 ELSE w2
           components == dependency_sort(sema_module.assignments)
       IN /\ out' = w3
          /\ assignment_components' = components
          /\ pc' = IF Len(components) = 0 THEN "done" ELSE "decl"
    /\ ci' = 1
    /\ ai' = 1
    /\ UNCHANGED << sema_module, referenced_modules, log, arg, res >>

\* one iteration of the first inner loop: the declaration of an assignment
WriteDecl ==
    /\ pc = "decl"
    /\ LET component == component_at(assignment_components, ci)
           assignment == component[ai]
           next == after_decl(component, ai)
       IN \E text \in { generate_decl(sema_module, assignment) } :
          IF Raised(text)
          THEN /\ pc' = "raised"
               /\ res' = << Exc(RaisedKind(text)) >>
               /\ UNCHANGED << out, log, ai >>
          ELSE /\ out' = write_blanks(write_block(out, text), 2)
               /\ log' = Append(log, [ev |-> "decl", name |-> reference_name(assignment),
                                      text |-> text])
               /\ pc' = next.pc
               /\ ai' = next.ai
               /\ UNCHANGED res
    /\ UNCHANGED << sema_module, referenced_modules, assignment_components, ci, arg >>

\* one iteration of the second inner loop: the definition of an assignment,
\* written when there is one
WriteDefn ==
    /\ pc = "defn"
    /\ LET component == component_at(assignment_components, ci)
           assignment == component[ai]
           next == after_defn(assignment_components, ci, ai)
       IN \E details \in { generate_definition(sema_module, assignment) } :
          IF Raised(details)
          THEN /\ pc' = "raised"
               /\ res' = << Exc(RaisedKind(details)) >>
               /\ UNCHANGED << out, log, ci, ai >>
          ELSE /\ IF details # << >>
                  THEN /\ out' = write_blanks(write_block(out, details), 2)
                       /\ log' = Append(log, [ev |-> "defn",
                                              name |-> reference_name(assignment),
                                              text |-> details])
                  ELSE UNCHANGED << out, log >>
               /\ pc' = next.pc
               /\ ci' = next.ci
               /\ ai' = next.ai
               /\ UNCHANGED res
    /\ UNCHANGED << sema_module, referenced_modules, assignment_components, arg >>

-----------------------------------------------------------------------------
(* The modules generate_code is run on *)

\* the names of the assignments of a drawn module, by position
TypeNames == << <<"A">>, <<"B">>, <<"C">>, <<"D">>, <<"E">> >>
ValueNames == << <<"a">>, <<"b">>, <<"c">>, <<"d">>, <<"e">> >>

ModuleName == << "M" >>
OtherModuleName == << "O", "-", "m" >>

\* the assignments drawn for position i: T ::= INTEGER, T ::= N,
\* T ::= SEQUENCE { x N OPTIONAL }, v N ::= 1 and
\* v OBJECT IDENTIFIER ::= { 1 2 }, for every type name N of the module
AssignmentsAt(i) ==
    { TypeAssignment(TypeNames[i], SimpleType(nINTEGER)),
      ValueAssignment(ValueNames[i], SimpleType(nOBJECT_IDENTIFIER),
                      [ty |-> "ObjectIdentifierValue", components |-> << "1", "2" >>]) }
    \cup { TypeAssignment(TypeNames[i], DefinedType(TypeNames[n])) : n \in 1..NumAssign }
    \cup { TypeAssignment(TypeNames[i],
               SequenceType(<< ComponentType(<<"x">>, DefinedType(TypeNames[n]),
                                             TRUE, None) >>)) : n \in 1..NumAssign }
    \cup { ValueAssignment(ValueNames[i], DefinedType(TypeNames[n]), Value("1")) :
              n \in 1..NumAssign }

\* no type of the module is defined as itself through a chain of type
\* references alone
NoReferenceLoop(module) ==
    \A i \in 1..Len(module.assignments) :
        LET root == resolve_type_decl(module, module.assignments[i].type_decl, 0)
        IN ~(IsError(root) /\ root.kind = "RecursionError")

\* the assignment lists of length n, position by position
RECURSIVE AssignmentLists(_)
AssignmentLists(n) ==
    IF n = 0 THEN { << >> }
    ELSE { Append(l, a) : l \in AssignmentLists(n - 1), a \in AssignmentsAt(n) }

Modules ==
    { m \in { Module(ModuleName, "absent", l) : l \in AssignmentLists(NumAssign) } :
        NoReferenceLoop(m) }

-----------------------------------------------------------------------------
(* Properties of generate_code *)

\* the positions of the tokens of a text that are identifiers
IdPositions(text) == { i \in 1..Len(text) : IsId(text[i]) }

\* the token a declaration declares: the class name after 'class ', the
\* variable name before ' = '
DeclaredToken(e) == IF e.text[1] = Lit("class ") THEN e.text[2] ELSE e.text[1]

\* the identifiers a written block uses: in a declaration every identifier
\* after the declared name, in a definition every identifier
UsesOf(e) ==
    IF e.ev = "decl"
    THEN { e.text[i] : i \in { p \in IdPositions(e.text) :
                                  p > (IF e.text[1] = Lit("class ") THEN 2 ELSE 1) } }
    ELSE { e.text[i] : i \in IdPositions(e.text) }

\* the identifiers of the names the module assigns
AssignedIds ==
    { Id(_sanitize_identifier(reference_name(sema_module.assignments[i]))) :
         i \in 1..Len(sema_module.assignments) }

\* the declaration of name is in the log before position k
DeclaredBefore(name, k) ==
    \E j \in 1..(k - 1) : log[j].ev = "decl" /\ log[j].name = name

\* the index of the component that holds the assignment called name
ComponentOf(name) ==
    CHOOSE c \in 1..Len(assignment_components) :
        \E i \in 1..Len(assignment_components[c]) :
            reference_name(assignment_components[c][i]) = name

\* the names of the assignments of the module that the assignment refers to
EdgesOf(assignment) ==
    { r \in { references(assignment)[i] : i \in 1..Len(references(assignment)) } :
         HasAssignment(sema_module, r) }

\* C1: when a definition of an assignment is written, the declarations of
\* all assignments of its component have been written before it.
DeclarationsBeforeDefinitions ==
    \A k \in 1..Len(log) :
        log[k].ev = "defn" =>
            LET component == assignment_components[ComponentOf(log[k].name)]
            IN \A i \in 1..Len(component) :
                   DeclaredBefore(reference_name(component[i]), k)

\* C1 witness: generation is done and a definition was written for an
\* assignment of a component of two mutually recursive assignments
RecursiveComponentDefined ==
    /\ pc = "done"
    /\ \E k \in 1..Len(log) :
          /\ log[k].ev = "defn"
          /\ Len(assignment_components[ComponentOf(log[k].name)]) = 2

\* C2: every identifier of an assigned name that a written block uses was
\* declared by a block written before it.
NoUseBeforeDeclaration ==
    \A k \in 1..Len(log) :
        \A t \in UsesOf(log[k]) :
            t \in AssignedIds =>
                \E j \in 1..(k - 1) : log[j].ev = "decl" /\ DeclaredToken(log[j]) = t

\* C3: for every reference A -> B between two assignments in different
\* components, the component of B comes before the component of A in the
\* list, and B is declared before A in the walk.
LeavesFirst ==
    pc # "start" =>
        \A i \in 1..Len(sema_module.assignments) :
            LET a == sema_module.assignments[i]
                ca == ComponentOf(reference_name(a))
            IN \A b \in EdgesOf(a) :
                  ComponentOf(b) # ca =>
                      /\ ComponentOf(b) < ca
                      /\ \A k \in 1..Len(log) :
                            (log[k].ev = "decl" /\ log[k].name = reference_name(a))
                                => DeclaredBefore(b, k)

\* C3 witness: generation is done for a module with a reference between two
\* components, both declared
ReferenceAcrossComponents ==
    /\ pc = "done"
    /\ \E i \in 1..Len(sema_module.assignments) :
          LET a == sema_module.assignments[i]
          IN /\ DeclaredBefore(reference_name(a), Len(log) + 1)
             /\ \E b \in EdgesOf(a) :
                   /\ ComponentOf(b) # ComponentOf(reference_name(a))
                   /\ DeclaredBefore(b, Len(log) + 1)

Init ==
    /\ sema_module \in Modules
    /\ referenced_modules = << [name |-> OtherModuleName, is_self |-> FALSE],
                               [name |-> ModuleName, is_self |-> TRUE] >>
    /\ pc = "start"
    /\ assignment_components = << >>
    /\ ci = 0
    /\ ai = 0
    /\ out = [buf |-> << >>, current_indent |-> 0]
    /\ log = << >>
    /\ arg = None
    /\ res = << >>

Next == WriteHeader \/ WriteDecl \/ WriteDefn

Spec == Init /\ [][Next]_vars

-----------------------------------------------------------------------------
(* Tagged types: defn_tagged_type and inline_tagged_type on a drawn tag *)

\* the part of the state generate_code alone uses, at rest
NoGeneration ==
    /\ referenced_modules = << [name |-> ModuleName, is_self |-> TRUE] >>
    /\ assignment_components = << >>
    /\ ci = 0
    /\ ai = 0
    /\ out = [buf |-> << >>, current_indent |-> 0]
    /\ log = << >>

\* C ::= CHOICE { a INTEGER, b BOOLEAN }   S ::= SEQUENCE { a INTEGER }
\* Y ::= ANY   D ::= C   I ::= INTEGER   W ::= [5] C
TagAssignments ==
    << TypeAssignment(<<"C">>, ChoiceType(<< NamedType(<<"a">>, SimpleType(nINTEGER)),
                                             NamedType(<<"b">>, SimpleType(nBOOLEAN)) >>)),
       TypeAssignment(<<"S">>, SequenceType(<< ComponentType(<<"a">>, SimpleType(nINTEGER),
                                                             FALSE, None) >>)),
       TypeAssignment(<<"Y">>, SimpleType(nANY)),
       TypeAssignment(<<"D">>, DefinedType(<<"C">>)),
       TypeAssignment(<<"I">>, SimpleType(nINTEGER)),
       TypeAssignment(<<"W">>, [TaggedType("DEFAULT", DefinedType(<<"C">>))
                                   EXCEPT !.class_number = "5"]) >>

\* the types a drawn tag is put on
TaggedInnerTypes ==
    { SimpleType(nINTEGER), SimpleType(nANY),
      ChoiceType(<< NamedType(<<"a">>, SimpleType(nINTEGER)) >>),
      SequenceType(<< ComponentType(<<"a">>, SimpleType(nINTEGER), FALSE, None) >>) }
    \cup { DefinedType(reference_name(TagAssignments[i])) : i \in 1..Len(TagAssignments) }

TagDefaults == { EXPLICIT, IMPLICIT, AUTOMATIC, "absent" }

TagMarkers == { IMPLICIT, EXPLICIT, "DEFAULT" }

InitTag ==
    /\ sema_module \in { Module(ModuleName, d, TagAssignments) : d \in TagDefaults }
    /\ arg \in { TaggedType(m, t) : m \in TagMarkers, t \in TaggedInnerTypes }
    /\ pc = "start"
    /\ res = << >>
    /\ NoGeneration

\* T ::= [0] ..., defined by generate_defn
DefnTaggedType ==
    /\ pc = "start"
    /\ res' = generate_defn(sema_module, Id(<<"T">>), arg, 0)
    /\ pc' = "defn_tagged_type"
    /\ UNCHANGED << sema_module, referenced_modules, assignment_components, ci, ai,
                    out, log, arg >>

\* [0] ... inside another type, written by generate_expr
InlineTaggedType ==
    /\ pc = "start"
    /\ res' = generate_expr(sema_module, arg, 0)
    /\ pc' = "inline_tagged_type"
    /\ UNCHANGED << sema_module, referenced_modules, assignment_components, ci, ai,
                    out, log, arg >>

NextTag == DefnTaggedType \/ InlineTaggedType

SpecTag == InitTag /\ [][NextTag]_vars

\* the tagging method written for the outermost tag: the fifth token of the
\* tagSet line, the token after the last '.subtype(' of the expression
OuterTagMethod ==
    IF pc = "defn_tagged_type" THEN res[5]
    ELSE res[1 + CHOOSE i \in 1..Len(res) :
                 /\ res[i] = Lit(".subtype(")
                 /\ \A k \in (i + 1)..Len(res) : res[k] # Lit(".subtype(")]

\* the drawn tag is on a type that resolves to CHOICE or ANY
TagOnOpenType == IsOpenType(resolve_type_decl(sema_module, arg.type_decl, 0))

\* C4: a tag on a type that resolves to CHOICE or ANY is never resolved to
\* IMPLICIT, and defn_tagged_type and inline_tagged_type write explicit
\* tagging for it.
OpenTypeTaggedExplicitly ==
    TagOnOpenType =>
        /\ resolve_tag_implicitness(sema_module, arg.implicitness, arg.type_decl)
               # IMPLICIT
        /\ pc = "defn_tagged_type" =>
               ~Raised(res) /\ OuterTagMethod = Lit("tagExplicitly")
        /\ pc = "inline_tagged_type" =>
               ~Raised(res) /\ OuterTagMethod = Lit("explicitTag")

\* C4 witness: [0] IMPLICIT on a reference to a CHOICE, in a module with
\* IMPLICIT TAGS, written by inline_tagged_type
ImplicitTagOnChoiceWritten ==
    /\ pc = "inline_tagged_type"
    /\ sema_module.tag_default = IMPLICIT
    /\ arg.implicitness = IMPLICIT
    /\ arg.type_decl = DefinedType(<<"D">>)
    /\ TagOnOpenType

\* C30: for every drawn tag, under every tag default of the module,
\* resolve_tag_implicitness returns IMPLICIT or EXPLICIT, and neither
\* defn_tagged_type nor inline_tagged_type raises 'Unexpected implicitness'
ImplicitnessResolved ==
    /\ resolve_tag_implicitness(sema_module, arg.implicitness, arg.type_decl)
           \in { IMPLICIT, EXPLICIT }
    /\ pc \in { "defn_tagged_type", "inline_tagged_type" }
           => \A i \in 1..Len(res) : res[i] # Exc("Unexpected implicitness")

\* C30 witness: a tag without marker, in a module with AUTOMATIC TAGS, was
\* written by defn_tagged_type
UnmarkedTagUnderAutomaticWritten ==
    /\ pc = "defn_tagged_type"
    /\ sema_module.tag_default = AUTOMATIC
    /\ arg.implicitness = "DEFAULT"
    /\ ~Raised(res)
    /\ OuterTagMethod = Lit("tagImplicitly")

-----------------------------------------------------------------------------
(* Component lists and value lists: generate_defn and generate_expr on a
   drawn constructed, value list or bit string type *)

\* B ::= SEQUENCE { x INTEGER, y I OPTIONAL }   E ::= SEQUENCE { ... }
\* N ::= SET { p INTEGER, COMPONENTS OF B, ... }   C ::= CHOICE { c INTEGER }
\* I ::= INTEGER   R ::= [1] B   Z ::= SEQUENCE { z INTEGER, COMPONENTS OF Z }
ComponentAssignments ==
    << TypeAssignment(<<"B">>,
           SequenceType(<< ComponentType(<<"x">>, SimpleType(nINTEGER), FALSE, None),
                           ComponentType(<<"y">>, DefinedType(<<"I">>), TRUE, None) >>)),
       TypeAssignment(<<"E">>, SequenceType(<< ExtensionMarker >>)),
       TypeAssignment(<<"N">>,
           SetType(<< ComponentType(<<"p">>, SimpleType(nINTEGER), FALSE, None),
                      ComponentsOf(DefinedType(<<"B">>)),
                      ExtensionMarker >>)),
       TypeAssignment(<<"C">>, ChoiceType(<< NamedType(<<"c">>, SimpleType(nINTEGER)) >>)),
       TypeAssignment(<<"I">>, SimpleType(nINTEGER)),
       TypeAssignment(<<"R">>, [TaggedType("DEFAULT", DefinedType(<<"B">>))
                                   EXCEPT !.class_number = "1"]),
       TypeAssignment(<<"Z">>,
           SequenceType(<< ComponentType(<<"z">>, SimpleType(nINTEGER), FALSE, None),
                           ComponentsOf(DefinedType(<<"Z">>)) >>)) >>

\* the members a drawn component list is made of
ComponentPool ==
    { ComponentType(<<"a">>, SimpleType(nINTEGER), FALSE, None),
      ComponentType(<<"b">>, SimpleType(nBOOLEAN), TRUE, None),
      ComponentType(<<"d">>, SimpleType(nINTEGER), FALSE, Value("1")),
      ExtensionMarker }
    \cup { ComponentsOf(DefinedType(reference_name(ComponentAssignments[i]))) :
              i \in 1..Len(ComponentAssignments) }

\* the members a drawn list of named values is made of
NamedValuePool ==
    { NamedValue(<<"r">>, "0"), NamedValue(<<"g">>, "1"), NamedValue(<<"n">>, "None"),
      ExtensionMarker }

\* the members a drawn list of named bits is made of
NamedBitPool == { NamedValue(<<"r">>, "0"), NamedValue(<<"g">>, "1") }

\* the sequences over a set, up to a length
SeqsUpTo(S, n) == UNION { [1..k -> S] : k \in 0..n }

DrawnTypes ==
    { SequenceType(cs) : cs \in SeqsUpTo(ComponentPool, MaxList) }
    \cup { ValueListType(nENUMERATED, vs) : vs \in SeqsUpTo(NamedValuePool, MaxList) }
    \cup { ValueListType(nINTEGER, vs) : vs \in SeqsUpTo(NamedBitPool, MaxList) }
    \cup { BitStringType(bs) : bs \in SeqsUpTo(NamedBitPool, MaxList) }

InitComp ==
    /\ sema_module = Module(ModuleName, "absent", ComponentAssignments)
    /\ arg \in DrawnTypes
    /\ pc = "start"
    /\ res = << >>
    /\ NoGeneration

\* T ::= the drawn type, defined by generate_defn
GenerateDefn ==
    /\ pc = "start"
    /\ res' = generate_defn(sema_module, Id(<<"T">>), arg, 0)
    /\ pc' = "defn"
    /\ UNCHANGED << sema_module, referenced_modules, assignment_components, ci, ai,
                    out, log, arg >>

\* the drawn type inside another type, written by generate_expr
GenerateExpr ==
    /\ pc = "start"
    /\ res' = generate_expr(sema_module, arg, 0)
    /\ pc' = "expr"
    /\ UNCHANGED << sema_module, referenced_modules, assignment_components, ci, ai,
                    out, log, arg >>

NextComp == GenerateDefn \/ GenerateExpr

SpecComp == InitComp /\ [][NextComp]_vars

\* the ASN.1 names quoted in a text, in the order they are written
EmittedNames(text) ==
    LET quoted == SelectSeq(text, IsStr)
    IN [i \in 1..Len(quoted) |-> quoted[i].str]

\* the ('name', value) pairs written in a text, in the order they are written
EmittedPairs(text) ==
    LET positions == SelectSeq([i \in 1..Len(text) |-> i],
                               LAMBDA i : text[i] = Lit("('"))
    IN [k \in 1..Len(positions) |->
           << text[positions[k] + 1].str, text[positions[k] + 3].lit >>]

\* the entries of a list that are not ExtensionMarker, in source order
NotMarkers(entries) == SelectSeq(entries, LAMBDA e : e.ty # "ExtensionMarker")

\* the (name, value) pairs of the entries of a list that are not ExtensionMarker
PairsOf(entries) ==
    [i \in 1..Len(NotMarkers(entries)) |->
        << NotMarkers(entries)[i].identifier, NotMarkers(entries)[i].value >>]

IsComponentsOf(c) == c.ty = "ComponentType" /\ ~IsNone(c.components_of_type)

\* the type a COMPONENTS OF member includes
IncludedType(c) == resolve_type_decl(sema_module, c.components_of_type, 0)

\* a component list with the components of X, as X lists them, written in the
\* place of every COMPONENTS OF X member
InPlace(components) ==
    Flatten([i \in 1..Len(components) |->
                IF IsComponentsOf(components[i])
                THEN IncludedType(components[i]).components
                ELSE << components[i] >>])

Generated == pc \in {"defn", "expr"}

ConstructedDrawn == arg.ty = "SequenceType"

\* what the action taken writes for a type
Regenerated(t) ==
    IF pc = "defn" THEN generate_defn(sema_module, Id(<<"T">>), t, 0)
    ELSE generate_expr(sema_module, t, 0)

\* every COMPONENTS OF member of the drawn list includes a SEQUENCE or a SET
IncludesSequencesOrSets ==
    \A i \in 1..Len(arg.components) :
        IsComponentsOf(arg.components[i])
            => /\ ~IsError(IncludedType(arg.components[i]))
               /\ IncludedType(arg.components[i]).ty \in {"SequenceType", "SetType"}

\* C5: a component list with COMPONENTS OF X members, each X a SEQUENCE or a
\* SET, is written exactly as the list with the components of X written in
\* the place of the member
ComponentsOfAsWrittenInPlace ==
    (Generated /\ ConstructedDrawn /\ IncludesSequencesOrSets /\ ~Raised(res))
        => res = Regenerated([arg EXCEPT !.components = InPlace(arg.components)])

\* the components written for the drawn list
Expanded == components_emitted(sema_module, arg.components, 0)

\* C6: the components written for a list with COMPONENTS OF members hold no
\* COMPONENTS OF member, they are the components the text names, and
\* expanding them again gives the same list
ExpansionIsFixpoint ==
    (Generated /\ ConstructedDrawn /\ ~Raised(res))
        => /\ \A i \in 1..Len(Expanded) :
                 ~IsError(Expanded[i]) /\ ~IsComponentsOf(Expanded[i])
           /\ EmittedNames(res) = [i \in 1..Len(Expanded) |-> Expanded[i].identifier]
           /\ components_emitted(sema_module, Expanded, 0) = Expanded
           /\ EmittedNames(Regenerated([arg EXCEPT !.components = Expanded]))
                 = EmittedNames(res)

\* C6 witness: a list whose COMPONENTS OF member includes a type that has a
\* COMPONENTS OF member of its own was written
NestedComponentsOfWritten ==
    /\ Generated /\ ConstructedDrawn /\ ~Raised(res)
    /\ \E i \in 1..Len(arg.components) :
          /\ IsComponentsOf(arg.components[i])
          /\ \E j \in 1..Len(IncludedType(arg.components[i]).components) :
                IsComponentsOf(IncludedType(arg.components[i]).components[j])
    /\ Len(EmittedNames(res)) >= 3

\* C7: a component list with a COMPONENTS OF X member, X neither a SEQUENCE
\* nor a SET, is not written: generation raises
ComponentsOfOtherTypeRaises ==
    (Generated /\ ConstructedDrawn /\ ~IncludesSequencesOrSets) => Raised(res)

\* C10: the pairs written for a list of named values or named bits, and the
\* components written for a component list, are the entries that are not
\* ExtensionMarker, each once, in source order
EntriesEmittedOnceInOrder ==
    (Generated /\ ~Raised(res))
        => CASE arg.ty = "ValueListType" ->
                    EmittedPairs(res) = PairsOf(arg.named_values)
             [] arg.ty = "BitStringType" ->
                    pc = "defn" => EmittedPairs(res) = PairsOf(arg.named_bits)
             [] OTHER ->
                    (\A i \in 1..Len(arg.components) : ~IsComponentsOf(arg.components[i]))
                        => EmittedNames(res)
                              = [i \in 1..Len(NotMarkers(arg.components)) |->
                                    NotMarkers(arg.components)[i].identifier]

\* C10 witness: a list of named values with an ExtensionMarker between two
\* named values was written
MarkerBetweenNamedValuesWritten ==
    /\ Generated /\ ~Raised(res)
    /\ arg.ty = "ValueListType"
    /\ Len(arg.named_values) = 3
    /\ arg.named_values[1].ty = "NamedValue"
    /\ arg.named_values[2].ty = "ExtensionMarker"
    /\ arg.named_values[3].ty = "NamedValue"
    /\ Len(EmittedPairs(res)) = 2

-----------------------------------------------------------------------------
(* Names: the declarations and the import line written for a drawn name *)

InitName ==
    /\ sema_module = Module(ModuleName, "absent", << >>)
    /\ arg \in typereference \cup valuereference
    /\ pc = "start"
    /\ res = << >>
    /\ NoGeneration

\* arg ::= INTEGER, declared by decl_type_assignment
DeclTypeAssignment ==
    /\ pc = "start"
    /\ arg \in typereference
    /\ res' = decl_type_assignment(sema_module,
                                   TypeAssignment(arg, SimpleType(nINTEGER)))
    /\ pc' = "decl_type_assignment"
    /\ UNCHANGED << sema_module, referenced_modules, assignment_components, ci, ai,
                    out, log, arg >>

\* arg INTEGER ::= 1, declared by decl_value_assignment
DeclValueAssignment ==
    /\ pc = "start"
    /\ arg \in valuereference
    /\ res' = decl_value_assignment(sema_module,
                                    ValueAssignment(arg, SimpleType(nINTEGER), Value("1")))
    /\ pc' = "decl_value_assignment"
    /\ UNCHANGED << sema_module, referenced_modules, assignment_components, ci, ai,
                    out, log, arg >>

\* a component of the type arg, written by inline_defined_type
InlineDefinedType ==
    /\ pc = "start"
    /\ arg \in typereference
    /\ res' = generate_expr(sema_module, DefinedType(arg), 0)
    /\ pc' = "inline_defined_type"
    /\ UNCHANGED << sema_module, referenced_modules, assignment_components, ci, ai,
                    out, log, arg >>

\* generate_code's import line for a referenced module named arg
ImportModule ==
    /\ pc = "start"
    /\ arg \in module_reference
    /\ res' = str(import_lines(get_fragment, << [name |-> arg, is_self |-> FALSE] >>))
    /\ pc' = "import"
    /\ UNCHANGED << sema_module, referenced_modules, assignment_components, ci, ai,
                    out, log, arg >>

NextName == DeclTypeAssignment \/ DeclValueAssignment \/ InlineDefinedType \/ ImportModule

SpecName == InitName /\ [][NextName]_vars

\* a name with its hyphens replaced by underscores, and an underscore added
\* when that is a Python keyword
SanitizedName(name) ==
    LET replaced == [i \in 1..Len(name) |-> IF name[i] = "-" THEN "_" ELSE name[i]]
    IN IF replaced \in kwlist
       THEN replaced \o << "_" >>
       ELSE replaced

\* C8: the class name of a type declaration and the variable name of a value
\* declaration are the sanitized name of the assignment
DeclaredNameIsSanitizedName ==
    /\ pc = "decl_type_assignment" => res[2] = Id(SanitizedName(arg))
    /\ pc = "decl_value_assignment" => res[1] = Id(SanitizedName(arg))

\* C9: no identifier written for a type, value or module name has a hyphen or
\* is a Python keyword
EmittedIdentifiersAreSafe ==
    \A i \in 1..Len(res) :
        IsId(res[i])
            => /\ \A j \in 1..Len(res[i].id) : res[i].id[j] # "-"
               /\ res[i].id \notin kwlist

\* C13: a name the identifier rules of the grammar accept does not end in a
\* hyphen and has no two adjacent hyphens
NoTrailingOrDoubleHyphen ==
    arg \in identifier \cup valuereference \cup typereference \cup module_reference
        => /\ arg[Len(arg)] # "-"
           /\ \A i \in 1..(Len(arg) - 1) : ~(arg[i] = "-" /\ arg[i + 1] = "-")

-----------------------------------------------------------------------------
(* parser.py: parse_asn1; pyasn1gen.py: generate_pyasn1 as one call *)

\* an input is a sequence of units: the text of a well-formed module
\* definition, kept as the module it denotes, or text that no
\* module_definition matches
WellFormed(module) == [ok |-> TRUE, module |-> module]
Malformed == [ok |-> FALSE]

\* OneOrMore(module_definition): the number of units matched, from the start
\* of the input up to the first one that does not match
RECURSIVE matched_modules(_, _)
matched_modules(definition, i) ==
    IF i > Len(definition) \/ ~definition[i].ok THEN 0
    ELSE 1 + matched_modules(definition, i + 1)

\* a mutant of parse_asn1: the trees are returned last module first
parse_asn1_reversed(asn1_definition) ==
    LET n == matched_modules(asn1_definition, 1)
    IN IF n = 0 THEN Error("ParseException")
       ELSE [ty |-> "ParseTree",
             trees |-> [i \in 1..n |-> asn1_definition[n + 1 - i].module]]

\* parse_asn1: grammar.parseString(asn1_definition) without parseAll; the
\* trees of the units matched, ParseException when not one is matched
parse_asn1(asn1_definition) ==
    LET n == matched_modules(asn1_definition, 1)
    IN IF n = 0 THEN Error("ParseException")
       ELSE [ty |-> "ParseTree",
             trees |-> [i \in 1..n |-> asn1_definition[i].module]]

\* sema.build_semantic_model: one module for every tree, in the order of the
\* trees
build_semantic_model(parse_tree) == parse_tree.trees

\* the state of a generate_code call: its writer, and the exception raised
Running(w) == [w |-> w, exc |-> ""]

\* the first inner loop of generate_code from the i-th assignment on
RECURSIVE write_decls(_, _, _, _)
write_decls(module, st, component, i) ==
    IF st.exc # "" \/ i > Len(component) THEN st
    ELSE With(generate_decl(module, component[i]), LAMBDA text :
            IF Raised(text) THEN [st EXCEPT !.exc = RaisedKind(text)]
            ELSE With(Running(write_blanks(write_block(st.w, text), 2)), LAMBDA next :
                    write_decls(module, next, component, i + 1)))

\* the second inner loop of generate_code from the i-th assignment on
RECURSIVE write_defns(_, _, _, _)
write_defns(module, st, component, i) ==
    IF st.exc # "" \/ i > Len(component) THEN st
    ELSE With(generate_definition(module, component[i]), LAMBDA details :
            IF Raised(details) THEN [st EXCEPT !.exc = RaisedKind(details)]
            ELSE With(IF details # << >>
                      THEN Running(write_blanks(write_block(st.w, details), 2))
                      ELSE st,
                      LAMBDA next : write_defns(module, next, component, i + 1)))

\* the loop of generate_code over assignment_components from the i-th on
RECURSIVE write_components(_, _, _, _)
write_components(module, st, components, i) ==
    IF st.exc # "" \/ i > Len(components) THEN st
    ELSE With(component_at(components, i), LAMBDA component :
            With(write_decls(module, st, component, 1), LAMBDA declared :
              With(write_defns(module, declared, component, 1), LAMBDA defined :
                write_components(module, defined, components, i + 1))))

\* generate_pyasn1: Pyasn1Backend(...).generate_code() on a writer over the
\* stream; modules[self] is the module generated
generate_pyasn1(modules, self, w) ==
    LET module == modules[self]
        referenced == [j \in 1..Len(modules) |->
                          [name |-> modules[j].name, is_self |-> j = self]]
        w1 == write_line(w, << Lit("from pyasn1.type import univ, char, namedtype, namedval, tag, constraint, useful") >>)
        w2 == write_blanks(import_lines(w1, referenced), 2)
        w3 == IF HasObjectIdentifierValue(module)
              THEN write_blanks(write_block(w2, generate_OID), 2)
              ELSE w2
    IN With(Running(w3), LAMBDA st :
         With(dependency_sort(module.assignments), LAMBDA components :
           write_components(module, st, components, 1)))

\* pygen.auto_generated_header: os.linesep.join of the two comment lines and
\* an empty line
auto_generated_header ==
    << Lit("# Auto-generated by asn1ate v.<version> from <source_filename>"), NL,
       Lit("# (last modified on <lastmod>)"), NL >>

-----------------------------------------------------------------------------
(* The drivers: pyasn1gen.main, test.main and cli.main on a drawn input.
   arg is the invocation, referenced_modules the modules of the semantic
   model, ci the index of the loop over them, ai the exit code (-1 before
   the driver returns), out the streams and files, log the module and sink
   of every iteration that generates, res the exception that left main *)

ModuleA == Module(<<"A">>, "absent", << TypeAssignment(<<"T">>, SimpleType(nINTEGER)) >>)

ModuleB ==
    Module(<<"B">>, "absent",
           << ValueAssignment(<<"v">>, SimpleType(nINTEGER), Value("1")) >>)

\* T ::= SEQUENCE { COMPONENTS OF U } with no U: its declaration is written,
\* its definition raises
ModuleR ==
    Module(<<"R">>, "absent",
           << TypeAssignment(<<"T">>,
                  SequenceType(<< ComponentsOf(DefinedType(<<"U">>)) >>)) >>)

UnitPool == { WellFormed(ModuleA), WellFormed(ModuleB), WellFormed(ModuleR), Malformed }

Definitions == SeqsUpTo(UnitPool, MaxModules)

\* the file a driver writes for a module: _sanitize_module(module.name) + '.py'
output_file_name(module) == _sanitize_module(module.name) \o << ".", "p", "y" >>

FileNames == { output_file_name(u.module) : u \in { v \in UnitPool : v.ok } }

OldContent == << Lit("# written before this run"), NL >>

Invocations ==
    { [driver |-> "pyasn1gen", stage |-> "gen", per_file |-> split,
       definition |-> d, existing |-> e] :
         split \in BOOLEAN, d \in Definitions,
         e \in { {}, {output_file_name(ModuleA)}, {output_file_name(ModuleB)} } }
    \cup
    { [driver |-> "test", stage |-> st.stage, per_file |-> st.outdir,
       definition |-> d, existing |-> e] :
         st \in { [stage |-> "parse", outdir |-> FALSE], [stage |-> "sema", outdir |-> FALSE],
                  [stage |-> "gen", outdir |-> FALSE], [stage |-> "gen", outdir |-> TRUE] },
         d \in Definitions,
         e \in { {}, {output_file_name(ModuleA)}, {output_file_name(ModuleB)} } }
    \cup
    { [driver |-> "cli", stage |-> stage, per_file |-> FALSE,
       definition |-> d, existing |-> {}] :
         stage \in {"parse", "sema", "gen"}, d \in Definitions }

InitDriver ==
    /\ arg \in Invocations
    /\ sema_module = None
    /\ referenced_modules = << >>
    /\ assignment_components = << >>
    /\ pc = "start"
    /\ ci = 0
    /\ ai = -1
    /\ out = [stdout |-> << >>, stderr |-> << >>, open |-> {}, calls |-> << >>,
              files |-> [f \in FileNames |->
                            IF f \in arg.existing
                            THEN [exists |-> TRUE, content |-> OldContent]
                            ELSE [exists |-> FALSE, content |-> << >>]]]
    /\ log = << >>
    /\ res = << >>

\* print(text, file=stream)
print(stream, text) == stream \o text \o << NL >>

\* parser.print_parse_tree(parse_tree) / print(module) for every module
print_modules(stream, what, modules) ==
    stream \o Flatten([i \in 1..Len(modules) |->
                          << Lit(what), Str(modules[i].name), NL >>])

\* a mutant of generate_to_stream: the header is printed after the code
generate_to_stream_header_last(stream, modules, i) ==
    With(generate_pyasn1(modules, i, [buf |-> stream, current_indent |-> 0]), LAMBDA st :
        [stream |-> IF st.exc = "" THEN print(st.w.buf, auto_generated_header)
                    ELSE st.w.buf,
         exc |-> st.exc])

\* the header and the code of modules[i] on a stream; the stream after the
\* call, and the exception that ended it
generate_to_stream(stream, modules, i) ==
    With(generate_pyasn1(modules, i,
             [buf |-> print(stream, auto_generated_header), current_indent |-> 0]),
         LAMBDA st : [stream |-> st.w.buf, exc |-> st.exc])

\* open(name, 'w') and file.close()
open(name) == [op |-> "open", file |-> name]
close(name) == [op |-> "close", file |-> name]

\* the files open after a sequence of open and close calls
RECURSIVE open_after(_, _)
open_after(files, calls) ==
    IF calls = << >> THEN files
    ELSE open_after(IF Head(calls).op = "open" THEN files \cup { Head(calls).file }
                    ELSE files \ { Head(calls).file },
                    Tail(calls))

\* a mutant of output_file_calls: the file is closed after generate_pyasn1,
\* outside a finally clause
output_file_calls_without_finally(split, name, exc) ==
    IF ~split THEN << >>
    ELSE IF exc = "" THEN << open(name), close(name) >>
    ELSE << open(name) >>

\* pyasn1gen.main: the calls on the output file of an iteration that ends
\* with exc: opened in split mode, closed in the finally clause when it is
\* not sys.stdout
output_file_calls(split, name, exc) ==
    IF split THEN << open(name), close(name) >> ELSE << >>

\* the streams and files after the calls on the output file of an iteration
after_calls(o, calls) ==
    [o EXCEPT !.calls = @ \o calls, !.open = open_after(@, calls)]

\* what a driver does after an iteration of its loop over the modules
after_module(exc) ==
    /\ pc' = IF exc # "" THEN "raised" ELSE "loop"
    /\ res' = IF exc # "" THEN << Exc(exc) >> ELSE res
    /\ ci' = IF exc # "" THEN ci ELSE ci + 1

\* the read, parse and sema stages of a driver: on a parse error main is left
\* by the exception; on an earlier stage selected, main prints and returns 0
read_and_parse(warns) ==
    LET parse_tree == parse_asn1(arg.definition)
    IN IF IsError(parse_tree)
       THEN /\ pc' = "raised"
            /\ res' = << Exc(parse_tree.kind) >>
            /\ UNCHANGED << referenced_modules, out, ci, ai >>
       ELSE IF arg.stage = "parse"
       THEN /\ out' = [out EXCEPT !.stdout = print_modules(@, "parse tree of ", parse_tree.trees)]
            /\ pc' = "returned"
            /\ ai' = 0
            /\ UNCHANGED << referenced_modules, ci, res >>
       ELSE LET modules == build_semantic_model(parse_tree)
            IN /\ referenced_modules' = modules
               /\ IF arg.stage = "sema"
                  THEN /\ out' = [out EXCEPT !.stdout = print_modules(@, "module ", modules)]
                       /\ pc' = "returned"
                       /\ ai' = 0
                       /\ UNCHANGED << ci, res >>
                  ELSE /\ out' = IF warns /\ Len(modules) > 1 /\ ~arg.per_file
                                 THEN [out EXCEPT !.stderr =
                                          print(@, << Lit("WARNING: More than one module generated to the same stream.") >>)]
                                 ELSE out
                       /\ pc' = "loop"
                       /\ ci' = 1
                       /\ UNCHANGED << ai, res >>

\* pyasn1gen.main up to its loop
Pyasn1genRead ==
    /\ pc = "start" /\ arg.driver = "pyasn1gen"
    /\ read_and_parse(TRUE)
    /\ UNCHANGED << sema_module, assignment_components, log, arg >>

\* pyasn1gen.main: one iteration of the loop over the modules
Pyasn1genModule ==
    /\ pc = "loop" /\ arg.driver = "pyasn1gen" /\ ci <= Len(referenced_modules)
    /\ LET name == output_file_name(referenced_modules[ci])
       IN IF arg.per_file
          THEN \E g \in { generate_to_stream(<< >>, referenced_modules, ci) } :
                  /\ out' = after_calls(
                               [out EXCEPT !.files[name] = [exists |-> TRUE, content |-> g.stream]],
                               output_file_calls(TRUE, name, g.exc))
                  /\ log' = Append(log, [index |-> ci, sink |-> name])
                  /\ after_module(g.exc)
          ELSE \E g \in { generate_to_stream(out.stdout, referenced_modules, ci) } :
                  /\ out' = after_calls([out EXCEPT !.stdout = g.stream],
                                        output_file_calls(FALSE, name, g.exc))
                  /\ log' = Append(log, [index |-> ci, sink |-> << "stdout" >>])
                  /\ after_module(g.exc)
    /\ UNCHANGED << sema_module, referenced_modules, assignment_components, ai, arg >>

\* test.main up to its loop
TestRead ==
    /\ pc = "start" /\ arg.driver = "test"
    /\ read_and_parse(FALSE)
    /\ UNCHANGED << sema_module, assignment_components, log, arg >>

\* test.main: generate_module_code for one module
TestModule ==
    /\ pc = "loop" /\ arg.driver = "test" /\ ci <= Len(referenced_modules)
    /\ LET name == output_file_name(referenced_modules[ci])
       IN IF ~arg.per_file
          THEN \E g \in { generate_to_stream(out.stdout, referenced_modules, ci) } :
                  /\ out' = [out EXCEPT !.stdout = g.stream]
                  /\ log' = Append(log, [index |-> ci, sink |-> << "stdout" >>])
                  /\ after_module(g.exc)
          ELSE IF out.files[name].exists
          THEN /\ after_module("Exception")
               /\ UNCHANGED << out, log >>
          ELSE \E g \in { generate_to_stream(<< >>, referenced_modules, ci) } :
                  /\ out' = after_calls(
                               [out EXCEPT !.files[name] = [exists |-> TRUE, content |-> g.stream]],
                               << open(name), close(name) >>)
                  /\ log' = Append(log, [index |-> ci, sink |-> name])
                  /\ after_module(g.exc)
    /\ UNCHANGED << sema_module, referenced_modules, assignment_components, ai, arg >>

\* cli.main up to its loop
CliRead ==
    /\ pc = "start" /\ arg.driver = "cli"
    /\ read_and_parse(FALSE)
    /\ UNCHANGED << sema_module, assignment_components, log, arg >>

\* cli.main: one iteration of the loop; auto_generated_header is called
\* without its version argument
CliModule ==
    /\ pc = "loop" /\ arg.driver = "cli" /\ ci <= Len(referenced_modules)
    /\ after_module("TypeError")
    /\ UNCHANGED << sema_module, referenced_modules, assignment_components, ai, arg,
                    out, log >>

\* return 0 after the loop
MainReturn ==
    /\ pc = "loop" /\ ci > Len(referenced_modules)
    /\ pc' = "returned"
    /\ ai' = 0
    /\ UNCHANGED << sema_module, referenced_modules, assignment_components, ci, arg,
                    out, log, res >>

NextDriver ==
    \/ Pyasn1genRead \/ Pyasn1genModule
    \/ TestRead \/ TestModule
    \/ CliRead \/ CliModule
    \/ MainReturn

SpecDriver == InitDriver /\ [][NextDriver]_vars

\* some unit of the input is no module definition
InputMalformed == \E i \in 1..Len(arg.definition) : ~arg.definition[i].ok

\* C11: on an input with a part that does not match the grammar the driver
\* is left by the parse error: no module is returned and nothing is printed
MalformedInputRaises ==
    InputMalformed
        => /\ pc \in {"start", "raised"}
           /\ referenced_modules = << >>
           /\ out.stdout = << >>

\* C12: the modules of the semantic model are the module definitions of the
\* input, one for one in source order, and the k-th iteration that generates
\* is for the k-th of them
ModulesInSourceOrder ==
    /\ \A i \in 1..Len(referenced_modules) :
          referenced_modules[i] = arg.definition[i].module
    /\ (pc # "start" /\ ~InputMalformed /\ arg.stage # "parse" /\ arg.definition # << >>)
          => Len(referenced_modules) = Len(arg.definition)
    /\ \A k \in 1..Len(log) : log[k].index = k
    /\ (pc = "returned" /\ arg.stage = "gen") => Len(log) = Len(referenced_modules)

\* C12 witness: a driver returned after it generated two different modules
TwoModulesGenerated ==
    /\ pc = "returned" /\ arg.stage = "gen"
    /\ Len(arg.definition) = 2
    /\ arg.definition[1] # arg.definition[2]
    /\ Len(log) = 2

\* C14: with one file per module, a file that was there before the run is
\* never written: it keeps its content and the driver is left by an error
\* when it comes to its module
ExistingFileReportedAndKept ==
    arg.per_file
        => \A f \in arg.existing :
              /\ out.files[f].content = OldContent
              /\ \A k \in 1..Len(log) : log[k].sink # f

\* the driver has come to its loop over the modules
InLoop == pc = "loop" \/ Len(log) > 0 \/ (pc = "raised" /\ referenced_modules # << >>)

\* C15: the warning is on the diagnostic stream exactly when the modules are
\* more than one and are written to one stream
WarningIffSharedStream ==
    InLoop => ((out.stderr # << >>) <=> (Len(referenced_modules) > 1 /\ ~arg.per_file))

\* the places of a line in a text
PositionsOf(text, line) ==
    SelectSeq([i \in 1..Len(text) |-> i], LAMBDA i : text[i] = Lit(line))

BannerStarts(text) ==
    PositionsOf(text, "# Auto-generated by asn1ate v.<version> from <source_filename>")

CodeStarts(text) ==
    PositionsOf(text, "from pyasn1.type import univ, char, namedtype, namedval, tag, constraint, useful")

\* the text of a sink named in log
SinkText(sink) == IF sink = << "stdout" >> THEN out.stdout ELSE out.files[sink].content

\* in the sink of every module generated, every banner is followed by the
\* code of a module after the given number of line ends, no code comes
\* without a banner, and the sink starts with a banner
BannerThenCode(line_ends) ==
    \A k \in 1..Len(log) :
        LET text == SinkText(log[k].sink)
            banners == BannerStarts(text)
            codes == CodeStarts(text)
        IN /\ Len(banners) >= 1
           /\ banners[1] = 1
           /\ Len(codes) = Len(banners)
           /\ \A j \in 1..Len(banners) :
                 /\ banners[j] < codes[j]
                 /\ Len(SelectSeq(SubSeq(text, banners[j], codes[j] - 1), IsNL)) = line_ends
                 /\ \A i \in banners[j]..(codes[j] - 1) : IsNL(text[i]) \/ IsLit(text[i])

\* C16 as stated: the banner is one line, in the sink of the code and before it
BannerIsOneLineBeforeCode == BannerThenCode(1)

\* C16 amended: the banner is two comment lines and an empty line, in the
\* sink of the code of the module and before any line of that code
BannerBeforeCode ==
    /\ BannerThenCode(3)
    /\ Len(CodeStarts(out.stdout)) = Len(SelectSeq(log, LAMBDA e : e.sink = << "stdout" >>))

\* C16 witness: two modules were generated to the standard output
TwoBannersOnStdout ==
    /\ pc = "returned"
    /\ Len(log) = 2
    /\ log[2].sink = << "stdout" >>
    /\ Len(BannerStarts(out.stdout)) = 2

-----------------------------------------------------------------------------
(* Fragments: a parent writer (out), a fragment got from it (arg) and the
   block written back; log holds the parent as it was when the fragment was
   got, res the text of the fragment *)

LinePool == { << Lit("pass") >>, << >> }

NumLines(w) == Len(SelectSeq(w.buf, IsNL))

InitFrag ==
    /\ sema_module = None
    /\ referenced_modules = << >>
    /\ assignment_components = << >>
    /\ ci = 0
    /\ ai = 0
    /\ out = [buf |-> << >>, current_indent |-> 0]
    /\ arg = None
    /\ log = << >>
    /\ res = << >>
    /\ pc = "parent"

FragUnchanged == UNCHANGED << sema_module, referenced_modules, assignment_components, ci, ai >>

\* push_indent, pop_indent and write_line on the parent
ParentPushIndent ==
    /\ pc = "parent" /\ out.current_indent < MaxLevel * indent_size
    /\ out' = push_indent(out)
    /\ FragUnchanged /\ UNCHANGED << arg, log, res, pc >>

ParentPopIndent ==
    /\ pc = "parent" /\ out.current_indent > 0
    /\ out' = pop_indent(out)
    /\ FragUnchanged /\ UNCHANGED << arg, log, res, pc >>

ParentWriteLine ==
    /\ pc = "parent" /\ NumLines(out) < 1
    /\ \E line \in LinePool : out' = write_line(out, line)
    /\ FragUnchanged /\ UNCHANGED << arg, log, res, pc >>

\* fragment = writer.get_fragment()
GetFragment ==
    /\ pc = "parent"
    /\ arg' = get_fragment
    /\ log' = << out >>
    /\ pc' = "fragment"
    /\ FragUnchanged /\ UNCHANGED << out, res >>

\* push_indent, pop_indent and write_line on the fragment
FragmentPushIndent ==
    /\ pc = "fragment" /\ arg.current_indent < MaxLevel * indent_size
    /\ arg' = push_indent(arg)
    /\ FragUnchanged /\ UNCHANGED << out, log, res, pc >>

FragmentPopIndent ==
    /\ pc = "fragment" /\ arg.current_indent > 0
    /\ arg' = pop_indent(arg)
    /\ FragUnchanged /\ UNCHANGED << out, log, res, pc >>

FragmentWriteLine ==
    /\ pc = "fragment" /\ NumLines(arg) < MaxLines
    /\ \E line \in LinePool : arg' = write_line(arg, line)
    /\ FragUnchanged /\ UNCHANGED << out, log, res, pc >>

\* writer.write_block(str(fragment))
WriteBlock ==
    /\ pc = "fragment"
    /\ res' = str(arg)
    /\ out' = write_block(out, str(arg))
    /\ pc' = "written"
    /\ FragUnchanged /\ UNCHANGED << arg, log >>

NextFrag ==
    \/ ParentPushIndent \/ ParentPopIndent \/ ParentWriteLine
    \/ GetFragment
    \/ FragmentPushIndent \/ FragmentPopIndent \/ FragmentWriteLine
    \/ WriteBlock

SpecFrag == InitFrag /\ [][NextFrag]_vars

\* the spaces a line starts with
RECURSIVE LeadingSpaces(_)
LeadingSpaces(line) ==
    IF line # << >> /\ IsSp(line[1]) THEN line[1].sp + LeadingSpaces(Tail(line)) ELSE 0

\* the non-empty lines of a text, each as its indentation and what follows it
NonEmptyLines(text) ==
    LET lines == SelectSeq(SplitLines(text), LAMBDA l : LStrip(l) # << >>)
    IN [i \in 1..Len(lines) |->
           [indent |-> LeadingSpaces(lines[i]), content |-> LStrip(lines[i])]]

\* C17: while a fragment is built the parent keeps its output and its indent;
\* written with write_block, the non-empty lines of the fragment are added to
\* the parent once each, in order, indented by the parent's indent on top of
\* their own, and the parent's indent is as before
FragmentOnlyBuffers ==
    /\ pc = "fragment" => out = log[1]
    /\ pc = "written"
          => /\ out.current_indent = log[1].current_indent
             /\ SubSeq(out.buf, 1, Len(log[1].buf)) = log[1].buf
             /\ NonEmptyLines(SubSeq(out.buf, Len(log[1].buf) + 1, Len(out.buf)))
                   = [i \in 1..Len(NonEmptyLines(res)) |->
                         [indent |-> NonEmptyLines(res)[i].indent + log[1].current_indent,
                          content |-> NonEmptyLines(res)[i].content]]

\* C17 witness: a fragment with an indented line after an empty line was
\* written into an indented parent that had output
IndentedFragmentWritten ==
    /\ pc = "written"
    /\ log[1].current_indent > 0
    /\ log[1].buf # << >>
    /\ Len(NonEmptyLines(res)) >= 2
    /\ \E i \in 1..Len(NonEmptyLines(res)) : NonEmptyLines(res)[i].indent > 0
    /\ \E i \in 1..(Len(res) - 1) : IsNL(res[i]) /\ IsNL(res[i + 1])

-----------------------------------------------------------------------------
(* Selection types: the declaration, the definition and the expression of a
   drawn type that is or holds a selection type *)

\* C ::= CHOICE { c INTEGER, d BOOLEAN }   D ::= C
\* E ::= CHOICE { e INTEGER, ... }   I ::= INTEGER
SelectionAssignments ==
    << TypeAssignment(<<"C">>,
           ChoiceType(<< NamedType(<<"c">>, SimpleType(nINTEGER)),
                         NamedType(<<"d">>, SimpleType(nBOOLEAN)) >>)),
       TypeAssignment(<<"D">>, DefinedType(<<"C">>)),
       TypeAssignment(<<"E">>,
           ChoiceType(<< NamedType(<<"e">>, SimpleType(nINTEGER)), ExtensionMarker >>)),
       TypeAssignment(<<"I">>, SimpleType(nINTEGER)) >>

Selections ==
    { SelectionType(ident, DefinedType(n)) :
         ident \in { <<"c">>, <<"d">>, <<"e">>, <<"x">> },
         n \in { <<"C">>, <<"D">>, <<"E">> } }

\* a selection type, alone or as a component, an alternative or an element
SelectionHolders ==
    Selections
    \cup { SequenceType(<< ComponentType(<<"m">>, sel, FALSE, None) >>) : sel \in Selections }
    \cup { ChoiceType(<< NamedType(<<"m">>, sel) >>) : sel \in Selections }
    \cup { SequenceOfType(sel) : sel \in Selections }
    \cup { SetOfType(sel) : sel \in Selections }

InitSel ==
    /\ sema_module = Module(ModuleName, "absent", SelectionAssignments)
    /\ arg \in SelectionHolders
    /\ pc = "start"
    /\ res = << >>
    /\ NoGeneration

\* T ::= the drawn type, declared by decl_type_assignment
GenerateDecl ==
    /\ pc = "start"
    /\ res' = generate_decl(sema_module, TypeAssignment(<<"T">>, arg))
    /\ pc' = "decl"
    /\ UNCHANGED << sema_module, referenced_modules, assignment_components, ci, ai,
                    out, log, arg >>

NextSel == GenerateDecl \/ GenerateDefn \/ GenerateExpr

SpecSel == InitSel /\ [][NextSel]_vars

\* the selection type of the drawn type
SelectionDrawn ==
    CASE arg.ty = "SelectionType" -> arg
      [] arg.ty \in ConstructedTypes -> arg.components[1].type_decl
      [] OTHER -> arg.type_decl

\* the CHOICE selected from has no alternative of the name selected
UnknownSelection ==
    LET choice == resolve_type_decl(sema_module, SelectionDrawn.type_decl, 0)
    IN /\ choice.ty = "ChoiceType"
       /\ \A i \in 1..Len(choice.components) :
             choice.components[i].ty = "NamedType"
                => choice.components[i].identifier # SelectionDrawn.identifier

\* C18: a selection of an alternative the CHOICE does not have raises, in the
\* declaration of a type assignment of it and in every type it is inside of;
\* no class is declared for it
UnknownSelectionReported ==
    UnknownSelection
        => /\ (pc = "decl" /\ arg.ty = "SelectionType")
                => Raised(res) /\ \A i \in 1..Len(res) : res[i] # Lit("class ")
           /\ pc = "expr" => Raised(res)
           /\ (pc = "defn" /\ arg.ty # "SelectionType") => Raised(res)

\* C18 witness: the declaration of T ::= x < C, C without x, raised
UnknownSelectionDeclared ==
    /\ pc = "decl"
    /\ arg = SelectionType(<<"x">>, DefinedType(<<"C">>))
    /\ UnknownSelection
    /\ Raised(res)

-----------------------------------------------------------------------------
(* The semantic model during generate_code *)

\* C19: no step of generate_code changes the semantic module, its assignments
\* or the list of referenced modules, whether the call returns or raises
SemanticModelReadOnly ==
    [][ /\ sema_module' = sema_module
        /\ sema_module'.assignments = sema_module.assignments
        /\ referenced_modules' = referenced_modules ]_vars

\* C19 witness: generate_code raised after it had written a declaration of a
\* module whose assignments are not in the order they are generated in
RaisedAfterWriting ==
    /\ pc = "raised"
    /\ Len(log) > 0
    /\ Flatten(assignment_components) # sema_module.assignments

-----------------------------------------------------------------------------
(* asn2quickder: the main program *)

MaxFiles == 3

\* the files of the command line: the name, split as os.path.splitext splits
\* it, and the names of the modules defined in the file
FilePool ==
    { [unit |-> <<"a">>, ext |-> ".asn1", modules |-> << <<"A">> >>],
      [unit |-> <<"b">>, ext |-> ".asn1", modules |-> << <<"B">>, <<"B", "2">> >>],
      [unit |-> <<"c">>, ext |-> ".h", modules |-> << <<"C">> >>] }

\* sys.argv[1:]
CommandLines == SeqsUpTo(FilePool, MaxFiles)

InitQuickDER ==
    /\ arg \in CommandLines
    /\ referenced_modules = << >>
    /\ sema_module = None
    /\ pc = "start"
    /\ ci = 0
    /\ ai = -1
    /\ out = << >>
    /\ log = << >>
    /\ assignment_components = << >>
    /\ res = None

\* QuickDERgen.__init__: line 71 is indented with a tab between lines indented
\* with spaces, which Python 3 refuses when it compiles the file
TabError ==
    /\ pc = "start"
    /\ pc' = "TabError"
    /\ ai' = 1
    /\ UNCHANGED << sema_module, referenced_modules, assignment_components, ci,
                    out, log, arg, res >>

\* the main program without a file
Usage ==
    /\ pc = "start"
    /\ Len(arg) = 0
    /\ log' = Append(log, "Usage")
    /\ ai' = 1
    /\ pc' = "exit"
    /\ UNCHANGED << sema_module, referenced_modules, assignment_components, ci,
                    out, arg, res >>

\* one iteration of the loop over the files: mods.insert(0, asn1sem[0])
ParseFile ==
    /\ pc \in { "start", "loop" }
    /\ ci < Len(arg)
    /\ LET asn1sem == arg[ci + 1].modules
       IN referenced_modules' = << asn1sem[1] >> \o referenced_modules
    /\ ci' = ci + 1
    /\ pc' = "loop"
    /\ UNCHANGED << sema_module, assignment_components, ai, out, log, arg, res >>

\* QuickDERgen(semamod, outfn, refmods)
QuickDERgen(semamod, outfn, refmods) ==
    IF outfn.ext = ".h" THEN Error("File cannot overwrite itself")
    ELSE [ty |-> "QuickDERgen", semamod |-> semamod, refmods |-> refmods,
          unit |-> outfn.unit]

\* cogen = QuickDERgen(mods[-1], os.path.basename(sys.argv[1]), mods[1:])
Construct ==
    /\ pc = "loop"
    /\ ci = Len(arg)
    /\ LET mods == referenced_modules
           cogen == QuickDERgen(mods[Len(mods)], arg[1], SubSeq(mods, 2, Len(mods)))
       IN /\ res' = cogen
          /\ pc' = IF IsError(cogen) THEN "raised" ELSE "constructed"
    /\ UNCHANGED << sema_module, referenced_modules, assignment_components, ci, ai,
                    out, log, arg >>

\* generate_head .. close: the comment that names the module, in <unit>.h
GenerateHead ==
    /\ pc = "constructed"
    /\ out' = << Lit(" * asn2quickder output for "), Id(res.semamod),
                 Lit(" -- automatically generated"), NL >>
    /\ log' = Append(log, res.unit \o << ".", "h" >>)
    /\ ai' = 0
    /\ pc' = "closed"
    /\ UNCHANGED << sema_module, referenced_modules, assignment_components, ci,
                    arg, res >>

NextQuickDER == TabError \/ Usage \/ ParseFile \/ Construct \/ GenerateHead

SpecQuickDER == InitQuickDER /\ [][NextQuickDER]_vars

\* C20: the generator is made for the first module of the first file, with
\* the first modules of the other files, and of no others, as referenced
\* modules
MainModuleAndDependencies ==
    pc \in { "constructed", "closed" }
        => /\ res.semamod = arg[1].modules[1]
           /\ Len(res.refmods) = Len(arg) - 1
           /\ { res.refmods[i] : i \in 1..Len(res.refmods) }
                 = { arg[i].modules[1] : i \in 2..Len(arg) }

-----------------------------------------------------------------------------
(* The assignments generate_code walks *)

\* the places of the components that hold an assignment
PlacesOf(assignment) ==
    { p \in { << c, i >> : c \in 1..Len(assignment_components), i \in 1..NumAssign } :
         /\ p[2] <= Len(assignment_components[p[1]])
         /\ assignment_components[p[1]][p[2]] = assignment }

\* the positions of the log with a block of a kind written for a name
WrittenFor(ev, name) == { k \in 1..Len(log) : log[k].ev = ev /\ log[k].name = name }

\* C21: the components hold every assignment of the module once and nothing
\* else; no assignment gets a second declaration or definition, only type
\* assignments get a definition, and when generate_code has returned every
\* assignment has its declaration
OneDeclarationPerAssignment ==
    pc # "start"
        => /\ \A k \in 1..Len(sema_module.assignments) :
                 LET assignment == sema_module.assignments[k]
                     name == reference_name(assignment)
                 IN /\ Cardinality(PlacesOf(assignment)) = 1
                    /\ Cardinality(WrittenFor("decl", name)) <= 1
                    /\ Cardinality(WrittenFor("defn", name)) <= 1
                    /\ assignment.ty # "TypeAssignment" => WrittenFor("defn", name) = {}
                    /\ pc = "done" => Cardinality(WrittenFor("decl", name)) = 1
           /\ Len(Flatten(assignment_components)) = Len(sema_module.assignments)
           /\ \A k \in 1..Len(log) : HasAssignment(sema_module, log[k].name)

\* C21 witness: generate_code returned after it walked two components and
\* wrote a definition
TwoComponentsWalked ==
    /\ pc = "done"
    /\ Len(assignment_components) = 2
    /\ \E k \in 1..Len(log) : log[k].ev = "defn"

-----------------------------------------------------------------------------
(* The output files of pyasn1gen.main *)

\* C22: in pyasn1gen.main no file is open between two iterations or after an
\* iteration that raised, at no point of the run more than one file is open,
\* only files that were opened are closed, and sys.stdout is never closed
OutputFilesClosed ==
    arg.driver = "pyasn1gen"
        => /\ out.open = {}
           /\ \A k \in 1..Len(out.calls) :
                 /\ Cardinality(open_after({}, SubSeq(out.calls, 1, k))) <= 1
                 /\ out.calls[k].file # << "stdout" >>
                 /\ out.calls[k].op = "close"
                       => out.calls[k].file \in open_after({}, SubSeq(out.calls, 1, k - 1))
           /\ Len(out.calls) = IF arg.per_file THEN 2 * Len(log) ELSE 0

\* C22 witness: in split mode the generation of the second module raised
\* after the file of the first was written
SecondFileRaised ==
    /\ arg.driver = "pyasn1gen" /\ arg.per_file
    /\ pc = "raised"
    /\ Len(log) = 2
    /\ Len(out.calls) = 4

-----------------------------------------------------------------------------
(* The stages of the drivers *)

\* the input parses, every module of it is generated without an error, and
\* no two modules are written to the same file
GeneratesCleanly ==
    /\ arg.definition # << >>
    /\ \A i \in 1..Len(arg.definition) :
          arg.definition[i] \in { WellFormed(ModuleA), WellFormed(ModuleB) }
    /\ arg.existing = {}
    /\ arg.per_file
          => \A i, j \in 1..Len(arg.definition) :
                arg.definition[i] = arg.definition[j] => i = j

\* no code of a module is on the standard output or in a file
NoCodeWritten ==
    /\ CodeStarts(out.stdout) = << >>
    /\ \A f \in FileNames : CodeStarts(out.files[f].content) = << >>

\* C23: test.main and cli.main, once they are left on an input that parses:
\* with stage parse no semantic model was built and no code written, with
\* stage sema no code was written, with stage gen and modules that generate
\* the banner and the code of every module were written; the exit code is 0
StopsAfterSelectedStage ==
    (arg.driver \in { "test", "cli" } /\ pc \in { "returned", "raised" } /\ GeneratesCleanly)
        => /\ pc = "returned"
           /\ ai = 0
           /\ arg.stage = "parse" => referenced_modules = << >> /\ NoCodeWritten
           /\ arg.stage = "sema" => NoCodeWritten
           /\ arg.stage = "gen"
                 => /\ Len(log) = Len(arg.definition)
                    /\ BannerThenCode(3)
                    /\ \A k \in 1..Len(log) :
                          Len(CodeStarts(SinkText(log[k].sink)))
                             = Cardinality({ j \in 1..Len(log) : log[j].sink = log[k].sink })

-----------------------------------------------------------------------------
(* The _OID helper *)

\* the positions in the output of the first line of the helper, and of the
\* calls of it
HelperDefinitions == PositionsOf(out.buf, "def _OID(*components):")
HelperCalls == PositionsOf(out.buf, "_OID(")

\* C24: from the first step of generate_code on, the output holds the _OID
\* helper once when the module has an object identifier value and not at all
\* when it has none, so the helper is there before the first assignment is
\* written, and every _OID(...) call is after it
HelperBeforeCalls ==
    pc # "start"
        => /\ Len(HelperDefinitions) = IF HasObjectIdentifierValue(sema_module) THEN 1 ELSE 0
           /\ \A k \in 1..Len(HelperCalls) :
                 /\ HelperDefinitions # << >>
                 /\ HelperDefinitions[1] < HelperCalls[k]

\* C24 witness: generate_code returned from a module whose second assignment
\* is an object identifier value, with the call of the helper written
HelperCalled ==
    /\ pc = "done"
    /\ sema_module.assignments[1].ty = "TypeAssignment"
    /\ HelperCalls # << >>
    /\ HelperDefinitions # << >>

-----------------------------------------------------------------------------
(* Termination of generate_code: modules with types that include, select
   from or refer to themselves or each other *)

\* the assignments drawn for position i: T ::= INTEGER and, for every type
\* name N of the module, T ::= N, T ::= SEQUENCE { x N OPTIONAL },
\* T ::= SEQUENCE { COMPONENTS OF N } and T ::= CHOICE { a a < N }
CyclicAssignmentsAt(i) ==
    { TypeAssignment(TypeNames[i], SimpleType(nINTEGER)) }
    \cup { TypeAssignment(TypeNames[i], DefinedType(TypeNames[n])) : n \in 1..NumAssign }
    \cup { TypeAssignment(TypeNames[i],
               SequenceType(<< ComponentType(<<"x">>, DefinedType(TypeNames[n]),
                                             TRUE, None) >>)) : n \in 1..NumAssign }
    \cup { TypeAssignment(TypeNames[i],
               SequenceType(<< ComponentsOf(DefinedType(TypeNames[n])) >>)) :
              n \in 1..NumAssign }
    \cup { TypeAssignment(TypeNames[i],
               ChoiceType(<< NamedType(<<"a">>,
                                 SelectionType(<<"a">>, DefinedType(TypeNames[n]))) >>)) :
              n \in 1..NumAssign }

RECURSIVE CyclicAssignmentLists(_)
CyclicAssignmentLists(n) ==
    IF n = 0 THEN { << >> }
    ELSE { Append(l, a) : l \in CyclicAssignmentLists(n - 1), a \in CyclicAssignmentsAt(n) }

InitTerm ==
    /\ sema_module \in { Module(ModuleName, "absent", l) : l \in CyclicAssignmentLists(NumAssign) }
    /\ referenced_modules = << [name |-> ModuleName, is_self |-> TRUE] >>
    /\ pc = "start"
    /\ assignment_components = << >>
    /\ ci = 0
    /\ ai = 0
    /\ out = [buf |-> << >>, current_indent |-> 0]
    /\ log = << >>
    /\ arg = None
    /\ res = << >>

SpecTerm == InitTerm /\ [][Next]_vars

\* the blocks generate_code has still to come to: both passes of the
\* components after the current one, and what is left of the current one
RECURSIVE BlocksFrom(_, _)
BlocksFrom(components, c) ==
    IF c > Len(components) THEN 0
    ELSE 2 * Len(components[c]) + BlocksFrom(components, c + 1)

StepsLeft ==
    CASE pc = "start" -> 1 + 2 * Len(sema_module.assignments)
      [] pc = "decl" -> 2 * Len(assignment_components[ci]) - (ai - 1)
                           + BlocksFrom(assignment_components, ci + 1)
      [] pc = "defn" -> Len(assignment_components[ci]) - (ai - 1)
                           + BlocksFrom(assignment_components, ci + 1)
      [] OTHER -> 0

\* generate_code is at an assignment of a component, or it has returned or
\* raised
AtAnAssignment ==
    /\ pc \in { "start", "decl", "defn", "done", "raised" }
    /\ pc \in { "decl", "defn" }
          => /\ ci \in 1..Len(assignment_components)
             /\ ai \in 1..Len(assignment_components[ci])

\* C25: generate_code comes to its end, by returning or by raising: every
\* step of it ends (with RecursionError when the types include or select
\* from each other without end), leaves fewer steps to take and leaves
\* generate_code at an assignment to go on with or at its end, with no steps
\* left
GenerateCodeTerminates ==
    /\ [](AtAnAssignment /\ StepsLeft \in Nat
            /\ (StepsLeft = 0 <=> pc \in { "done", "raised" }))
    /\ [][StepsLeft' < StepsLeft]_vars

\* C25 witness: generate_code raised on A ::= SEQUENCE { COMPONENTS OF A }
SelfIncludingTypeRaised ==
    /\ pc = "raised"
    /\ sema_module.assignments[1]
          = TypeAssignment(<<"A">>, SequenceType(<< ComponentsOf(DefinedType(<<"A">>)) >>))
    /\ res = << Exc("RecursionError") >>

-----------------------------------------------------------------------------
(* Indentation: the indent level of the fragment an emitter builds, call by
   call, for the helper function and for a drawn type *)

\* the fragment an emitter returns as text, with the indent level it had after
\* each call
after_emitter(calls) ==
    [buf |-> calls[Len(calls)].buf,
     current_indent |-> calls[Len(calls)].current_indent,
     levels |-> [i \in 1..Len(calls) |-> calls[i].current_indent]]

\* generate_OID builds its fragment
EmitOID ==
    /\ pc = "start"
    /\ out' = after_emitter(generate_OID_calls)
    /\ pc' = "OID"
    /\ UNCHANGED << sema_module, referenced_modules, assignment_components, ci, ai,
                    log, arg, res >>

\* T ::= the drawn type, declared by decl_type_assignment
EmitDecl ==
    /\ pc = "start"
    /\ out' = after_emitter(decl_type_assignment_calls(<<"T">>, type_name(arg)))
    /\ pc' = "decl"
    /\ UNCHANGED << sema_module, referenced_modules, assignment_components, ci, ai,
                    log, arg, res >>

\* T ::= the drawn type, defined by the emitter defn_generators has for it
EmitDefn ==
    /\ pc = "start"
    /\ out' = after_emitter(
                 CASE arg.ty = "ValueListType" ->
                        defn_value_list_type_calls(sema_module, Id(<<"T">>), arg)
                   [] arg.ty = "BitStringType" ->
                        defn_bitstring_type_calls(sema_module, Id(<<"T">>), arg)
                   [] OTHER -> defn_constructed_type_calls(sema_module, Id(<<"T">>), arg))
    /\ pc' = "defn"
    /\ UNCHANGED << sema_module, referenced_modules, assignment_components, ci, ai,
                    log, arg, res >>

NextIndent == EmitOID \/ EmitDecl \/ EmitDefn

SpecIndent == InitComp /\ [][NextIndent]_vars

\* C26: in every emitter, generate_OID included, the indent level of the
\* fragment is never negative and is back at its starting value when the
\* emitter returns
IndentBalanced ==
    pc \in { "OID", "decl", "defn" } =>
        /\ \A i \in 1..Len(out.levels) : out.levels[i] >= 0
        /\ out.current_indent = out.levels[1]

-----------------------------------------------------------------------------
(* asn2quickder.py: the parser definitions, generate_pack and its handlers *)

\* str.upper()
UpperChar(c) ==
    IF \E i \in 1..Len(LowerCase) : LowerCase[i] = c
    THEN UpperCase[CHOOSE i \in 1..Len(LowerCase) : LowerCase[i] = c]
    ELSE c

Upper(name) == [i \in 1..Len(name) |-> UpperChar(name[i])]

\* str.replace(' ', '')
RemoveSpaces(name) == SelectSeq(name, LAMBDA c : c # " ")

\* tosym: spaces removed, hyphens replaced
tosym(name) == ReplaceHyphen(RemoveSpaces(name))

\* the generator while it writes: the texts written to outfile, one for every
\* call of write, the separator state, and the exception that left it
QuickDERwriter == [buf |-> << >>, comma0 |-> << >>, comma1 |-> << >>, exc |-> ""]

\* raise: the first exception ends the writing
raise(g, kind) == IF g.exc # "" THEN g ELSE [g EXCEPT !.exc = kind]

\* QuickDERgen.write
write(g, txt) == IF g.exc # "" THEN g ELSE [g EXCEPT !.buf = Append(@, txt)]

\* QuickDERgen.writeln
writeln(g, txt) == write(g, txt \o << NL >>)

\* QuickDERgen.newcomma
newcomma(g, later, firstcomma) ==
    IF g.exc # "" THEN g ELSE [g EXCEPT !.comma0 = firstcomma, !.comma1 = later]

\* QuickDERgen.comma
comma(g) ==
    With(g, LAMBDA h :
        IF h.exc # "" THEN h ELSE [write(h, h.comma0) EXCEPT !.comma0 = h.comma1])

\* the two separators packTypeAssignment sets: the line continuation, without
\* and with a comma
firstcomma == << Lit(" \\\n\t") >>
latercomma == << Lit(", \\\n\t") >>

RECURSIVE generate_pack_node(_, _, _)
RECURSIVE pack_components(_, _, _, _)

\* QuickDERgen.packDefinedType
packDefinedType(g, unit, node) ==
    IF "module_name" \notin DOMAIN node THEN raise(g, "AttributeError")
    ELSE LET mod == IF node.module_name # NoName THEN node.module_name ELSE unit
         IN write(comma(g), << Lit("DER_PACK_"), Id(tosym(mod)), Lit("_"),
                               Id(tosym(node.type_name)) >>)

\* QuickDERgen.packSimpleType
packSimpleType(g, unit, node) ==
    write(comma(g), << Lit("DER_PACK_STORE | DER_TAG_"),
                       Id(Upper(RemoveSpaces(node.type_name))) >>)

\* QuickDERgen.overlaySimpleType
overlaySimpleType(g, unit, node) == write(g, << Lit("dercursor") >>)

\* a mutant of packTaggedType: the tag is entered and not left
packTaggedType_not_left(g, unit, node) ==
    generate_pack_node(
        write(comma(g), << Lit("DER_PACK_ENTER | DER_TAG_"),
                           Lit(IF node.class_name # "" THEN node.class_name
                               ELSE "CONTEXT"),
                           Lit("("), Lit(node.class_number), Lit(")") >>),
        unit, node.type_decl)

\* QuickDERgen.packTaggedType
packTaggedType(g, unit, node) ==
    LET g1 == write(comma(g), << Lit("DER_PACK_ENTER | DER_TAG_"),
                                 Lit(IF node.class_name # "" THEN node.class_name
                                     ELSE "CONTEXT"),
                                 Lit("("), Lit(node.class_number), Lit(")") >>)
        g2 == generate_pack_node(g1, unit, node.type_decl)
    IN write(comma(g2), << Lit("DER_PACK_LEAVE") >>)

\* the comment a constructed type writes for an extension marker
extensions_comment(kind) ==
    IF kind = "SequenceType" THEN << Lit("/* ...ASN.1 extensions... */") >>
    ELSE << Lit("/* ...extensions... */") >>

\* the loop over node.components of packSequenceType, packSetType and
\* packChoiceType
pack_components(g, unit, kind, components) ==
    IF components = << >> THEN g
    ELSE With(g, LAMBDA h :
         LET comp == Head(components)
             g1 == IF comp.ty = "ExtensionMarker"
                   THEN write(comma(h), extensions_comment(kind))
                   ELSE IF kind # "ChoiceType" /\ "optional" \notin DOMAIN comp
                   THEN raise(h, "AttributeError")
                   ELSE LET g2 == IF kind # "ChoiceType" /\ comp.optional
                                  THEN write(comma(h), << Lit("DER_PACK_OPTIONAL") >>)
                                  ELSE h
                        IN IF ~IsNone(comp.type_decl)
                           THEN generate_pack_node(g2, unit, comp.type_decl)
                           ELSE g2
         IN pack_components(g1, unit, kind, Tail(components)))

\* QuickDERgen.packSequenceType
packSequenceType(g, unit, node) ==
    LET g1 == write(comma(g), << Lit("DER_PACK_ENTER | DER_TAG_"), Lit("SEQUENCE") >>)
        g2 == pack_components(g1, unit, "SequenceType", node.components)
    IN write(comma(g2), << Lit("DER_PACK_LEAVE") >>)

\* QuickDERgen.packSetType
packSetType(g, unit, node) ==
    LET g1 == write(comma(g), << Lit("DER_PACK_ENTER | DER_TAG_"), Lit("SET") >>)
        g2 == pack_components(g1, unit, "SetType", node.components)
    IN write(comma(g2), << Lit("DER_PACK_LEAVE") >>)

\* QuickDERgen.packChoiceType
packChoiceType(g, unit, node) ==
    LET g1 == write(comma(g), << Lit("DER_PACK_CHOICE_BEGIN") >>)
        g2 == pack_components(g1, unit, "ChoiceType", node.components)
    IN write(comma(g2), << Lit("DER_PACK_CHOICE_END") >>)

\* QuickDERgen.packSequenceOfType
packSequenceOfType(g, unit, node) ==
    write(comma(g), << Lit("DER_PACK_STORE | DER_TAG_"), Lit("SEQUENCE") >>)

\* QuickDERgen.packSetOfType
packSetOfType(g, unit, node) ==
    write(comma(g), << Lit("DER_PACK_STORE | DER_TAG_"), Lit("SEQUENCE") >>)

\* QuickDERgen.packTypeAssignment
packTypeAssignment(g, unit, node) ==
    LET g1 == write(g, << Lit("#define DER_PACK_"), Id(unit), Lit("_"),
                          Id(tosym(node.type_name)) >>)
        g2 == generate_pack_node(newcomma(g1, latercomma, firstcomma), unit,
                                 node.type_decl)
    IN writeln(writeln(g2, << >>), << >>)

\* QuickDERgen.ignore_node
ignore_node(g, unit, node) == g

\* QuickDERgen.generate_pack_node: dispatch through pack_funmap
generate_pack_node(g, unit, node) ==
    IF g.exc # "" THEN g
    ELSE CASE node.ty = "DefinedType" -> packDefinedType(g, unit, node)
           [] node.ty = "ValueAssignment" -> ignore_node(g, unit, node)
           [] node.ty = "TypeAssignment" -> packTypeAssignment(g, unit, node)
           [] node.ty = "TaggedType" -> packTaggedType(g, unit, node)
           [] node.ty \in { "SimpleType", "BitStringType" } -> packSimpleType(g, unit, node)
           [] node.ty = "ValueListType" -> overlaySimpleType(g, unit, node)
           [] node.ty = "SequenceType" -> packSequenceType(g, unit, node)
           [] node.ty = "SetType" -> packSetType(g, unit, node)
           [] node.ty = "ChoiceType" -> packChoiceType(g, unit, node)
           [] node.ty = "SequenceOfType" -> packSequenceOfType(g, unit, node)
           [] node.ty = "SetOfType" -> packSetOfType(g, unit, node)
           [] node.ty = "ComponentType" -> packSimpleType(g, unit, node)
           [] OTHER -> raise(g, "No pack generator")

\* the position after the i-th assignment of a component in the loop of
\* generate_pack
after_pack(components, c, i) ==
    IF i < Len(component_at(components, c)) THEN [pc |-> "pack", ci |-> c, ai |-> i + 1]
    ELSE IF c < Len(components) THEN [pc |-> "pack", ci |-> c + 1, ai |-> 1]
    ELSE [pc |-> "done", ci |-> c, ai |-> i]

-----------------------------------------------------------------------------
(* The parser definitions of a drawn type: generate_pack on the module
   T ::= the drawn type   v INTEGER ::= 1   I ::= INTEGER *)

\* the name of the file the module was read from, without its extension
PackUnit == << "r", "f", "c" >>

\* the members a drawn SEQUENCE or SET is made of
PackMemberPool ==
    { ComponentType(<<"a">>, SimpleType(nINTEGER), FALSE, None),
      ComponentType(<<"b">>, SimpleType(nOCTET_STRING), TRUE, None),
      ComponentType(<<"t">>, [TaggedType("DEFAULT", SimpleType(nINTEGER))
                                 EXCEPT !.class_name = "APPLICATION"], FALSE, None),
      ComponentType(<<"c">>,
          ChoiceType(<< NamedType(<<"y">>, TaggedType("DEFAULT", SimpleType(nBOOLEAN))),
                        ExtensionMarker >>), FALSE, None),
      ComponentType(<<"e">>, ValueListType(nENUMERATED, << NamedValue(<<"r">>, "0") >>),
                    FALSE, None),
      ComponentType(<<"d">>, DefinedType(<<"I">>), FALSE, None),
      ComponentsOf(DefinedType(<<"I">>)),
      ExtensionMarker }

\* the alternatives a drawn CHOICE is made of
PackAlternativePool ==
    { NamedType(<<"x">>, SimpleType(nINTEGER)),
      NamedType(<<"o">>, SetOfType(SimpleType(nINTEGER))),
      NamedType(<<"s">>, SequenceType(<< ComponentType(<<"a">>, SimpleType(nINTEGER),
                                                       TRUE, None) >>)),
      NamedType(<<"l">>, SelectionType(<<"x">>, DefinedType(<<"I">>))),
      ExtensionMarker }

PackTypes ==
    { SequenceType(cs) : cs \in SeqsUpTo(PackMemberPool, MaxList) }
    \cup { SetType(cs) : cs \in SeqsUpTo(PackMemberPool, MaxList) }
    \cup { ChoiceType(cs) : cs \in SeqsUpTo(PackAlternativePool, MaxList) }
    \cup { TaggedType("DEFAULT", ChoiceType(cs)) :
              cs \in SeqsUpTo(PackAlternativePool, MaxList) }
    \cup { SimpleType(nINTEGER), SimpleType(nOBJECT_IDENTIFIER),
           BitStringType(<< >>), DefinedType(<<"I">>),
           SequenceOfType(SimpleType(nINTEGER)),
           ValueListType(nINTEGER, << NamedValue(<<"r">>, "0") >>) }

InitPack ==
    /\ \E t \in PackTypes :
          sema_module = Module(ModuleName, "absent",
                               << TypeAssignment(<<"T">>, t),
                                  ValueAssignment(<<"v">>, SimpleType(nINTEGER), Value("1")),
                                  TypeAssignment(<<"I">>, SimpleType(nINTEGER)) >>)
    /\ arg = PackUnit
    /\ referenced_modules = << >>
    /\ assignment_components = << >>
    /\ pc = "start"
    /\ ci = 0
    /\ ai = 0
    /\ out = QuickDERwriter
    /\ log = << >>
    /\ res = << >>

\* generate_pack up to its loop: the comment, and the dependency sort
GeneratePack ==
    /\ pc = "start"
    /\ out' = writeln(writeln(writeln(writeln(out, << >>), << >>),
                  << Lit("/* Parser definitions in terms of ASN.1 derived bytecode instructions */") >>),
                  << >>)
    /\ LET components == dependency_sort(sema_module.assignments)
       IN /\ assignment_components' = components
          /\ pc' = IF Len(components) = 0 THEN "done" ELSE "pack"
    /\ ci' = 1
    /\ ai' = 1
    /\ UNCHANGED << sema_module, referenced_modules, log, arg, res >>

\* one iteration of the loop of generate_pack, on a type assignment
PackTypeAssignment ==
    /\ pc = "pack"
    /\ LET assign == component_at(assignment_components, ci)[ai]
           next == after_pack(assignment_components, ci, ai)
       IN /\ assign.ty = "TypeAssignment"
          /\ \E g \in { packTypeAssignment(out, arg, assign) } :
                /\ out' = g
                /\ log' = Append(log, assign.type_name)
                /\ IF g.exc # ""
                   THEN /\ pc' = "raised"
                        /\ UNCHANGED << ci, ai >>
                   ELSE /\ pc' = next.pc
                        /\ ci' = next.ci
                        /\ ai' = next.ai
    /\ UNCHANGED << sema_module, referenced_modules, assignment_components, arg, res >>

\* one iteration of the loop of generate_pack, on a value assignment
IgnoreNode ==
    /\ pc = "pack"
    /\ LET assign == component_at(assignment_components, ci)[ai]
           next == after_pack(assignment_components, ci, ai)
       IN /\ assign.ty = "ValueAssignment"
          /\ out' = ignore_node(out, arg, assign)
          /\ pc' = next.pc
          /\ ci' = next.ci
          /\ ai' = next.ai
    /\ UNCHANGED << sema_module, referenced_modules, assignment_components, log, arg,
                    res >>

NextPack == GeneratePack \/ PackTypeAssignment \/ IgnoreNode

SpecPack == InitPack /\ [][NextPack]_vars

\* the writes that begin a DER_PACK_ definition
DefineStarts == { k \in 1..Len(out.buf) : out.buf[k][1] = Lit("#define DER_PACK_") }

\* the writes of the definition begun by the k-th write, without the line
\* ends after it
DefinitionAt(k) ==
    LET last == IF \E j \in DefineStarts : j > k
                THEN (CHOOSE j \in DefineStarts :
                         j > k /\ \A i \in DefineStarts : i > k => j <= i) - 1
                ELSE Len(out.buf)
    IN SelectSeq(SubSeq(out.buf, k + 1, last), LAMBDA txt : txt # << NL >>)

\* packTypeAssignment returned from the definition begun by the k-th write
Completed(k) == out.exc = "" \/ \E j \in DefineStarts : j > k

\* the instruction opens a nesting level, and which
Opens(txt) ==
    IF txt[1] = Lit("DER_PACK_ENTER | DER_TAG_") THEN "ENTER"
    ELSE IF txt = << Lit("DER_PACK_CHOICE_BEGIN") >> THEN "CHOICE"
    ELSE ""

\* the instruction closes a nesting level, and which
Closes(txt) ==
    IF txt = << Lit("DER_PACK_LEAVE") >> THEN "ENTER"
    ELSE IF txt = << Lit("DER_PACK_CHOICE_END") >> THEN "CHOICE"
    ELSE ""

\* the levels open after the writes, innermost last; "unmatched" when a close
\* met no open of its kind
RECURSIVE Unclosed(_, _)
Unclosed(writes, stack) ==
    IF writes = << >> THEN stack
    ELSE IF Opens(Head(writes)) # ""
    THEN Unclosed(Tail(writes), Append(stack, Opens(Head(writes))))
    ELSE IF Closes(Head(writes)) # ""
    THEN IF stack # << >> /\ stack[Len(stack)] = Closes(Head(writes))
         THEN Unclosed(Tail(writes), SubSeq(stack, 1, Len(stack) - 1))
         ELSE << "unmatched" >>
    ELSE Unclosed(Tail(writes), stack)

\* C27: in every DER_PACK_ definition no close comes without the open of its
\* kind before it, innermost first, and when packTypeAssignment has returned
\* every DER_PACK_ENTER has its DER_PACK_LEAVE and every DER_PACK_CHOICE_BEGIN
\* its DER_PACK_CHOICE_END
PackBalanced ==
    pc # "start" =>
        \A k \in DefineStarts :
            /\ Unclosed(DefinitionAt(k), << >>) # << "unmatched" >>
            /\ Completed(k) => Unclosed(DefinitionAt(k), << >>) = << >>

\* C27 witness: generate_pack returned after a definition with a tagged type
\* inside a CHOICE inside a SEQUENCE or SET
NestedDefinitionPacked ==
    /\ pc = "done"
    /\ out.exc = ""
    /\ \E k \in DefineStarts :
          \E n \in 1..Len(DefinitionAt(k)) :
              Unclosed(SubSeq(DefinitionAt(k), 1, n), << >>)
                 = << "ENTER", "CHOICE", "ENTER" >>

IsSeparator(txt) == txt \in { firstcomma, latercomma }

IsComment(txt) ==
    txt \in { extensions_comment("SequenceType"), extensions_comment("SetType") }

\* C28: in every DER_PACK_ definition the first separator is the line
\* continuation without a comma and every later one has the comma, every
\* instruction has a separator right before it, and every separator has an
\* instruction right after it
OneSeparatorPerInstruction ==
    pc # "start" =>
        \A k \in DefineStarts :
            LET d == DefinitionAt(k)
                seps == { i \in 1..Len(d) : IsSeparator(d[i]) }
            IN /\ \A i \in seps :
                     d[i] = IF \A j \in seps : i <= j THEN firstcomma ELSE latercomma
               /\ \A i \in 1..Len(d) :
                     ~IsSeparator(d[i]) => i > 1 /\ IsSeparator(d[i - 1])
               /\ \A i \in seps :
                     i < Len(d) => ~IsSeparator(d[i + 1]) /\ ~IsComment(d[i + 1])

-----------------------------------------------------------------------------
(* Built-in types: the names the grammar gives the nodes of built-in types,
   each translated by _translate_type *)

\* restricted_characterstring_type
restricted_characterstring_type ==
    { <<"B","M","P","S","t","r","i","n","g">>,
      <<"G","e","n","e","r","a","l","S","t","r","i","n","g">>,
      <<"G","r","a","p","h","i","c","S","t","r","i","n","g">>,
      <<"I","A","5","S","t","r","i","n","g">>,
      <<"I","S","O","6","4","6","S","t","r","i","n","g">>,
      <<"N","u","m","e","r","i","c","S","t","r","i","n","g">>,
      <<"P","r","i","n","t","a","b","l","e","S","t","r","i","n","g">>,
      <<"T","e","l","e","t","e","x","S","t","r","i","n","g">>,
      <<"T","6","1","S","t","r","i","n","g">>,
      <<"U","n","i","v","e","r","s","a","l","S","t","r","i","n","g">>,
      <<"U","T","F","8","S","t","r","i","n","g">>,
      <<"V","i","d","e","o","t","e","x","S","t","r","i","n","g">>,
      <<"V","i","s","i","b","l","e","S","t","r","i","n","g">> }

\* unrestricted_characterstring_type
unrestricted_characterstring_type == { nCHARACTER_STRING }

\* characterstring_type
characterstring_type ==
    restricted_characterstring_type \cup unrestricted_characterstring_type

\* useful_type
useful_type ==
    { <<"G","e","n","e","r","a","l","i","z","e","d","T","i","m","e">>,
      <<"U","T","C","T","i","m","e">>,
      <<"O","b","j","e","c","t","D","e","s","c","r","i","p","t","o","r">> }

\* simple_type: the keyword that names the type
simple_type ==
    { <<"A","N","Y">>,
      <<"B","O","O","L","E","A","N">>,
      <<"N","U","L","L">>,
      <<"O","C","T","E","T"," ","S","T","R","I","N","G">>,
      <<"R","E","A","L">>,
      <<"I","N","T","E","G","E","R">>,
      <<"O","B","J","E","C","T"," ","I","D","E","N","T","I","F","I","E","R">> }
    \cup characterstring_type \cup useful_type

\* the names of the nodes of constructed_type, sequenceof_type, setof_type,
\* value_list_type and bitstring_type
structured_type ==
    { nCHOICE, nSEQUENCE, nSET, nSEQUENCE_OF, nSET_OF, nINTEGER, nENUMERATED,
      nBIT_STRING }

\* builtin_type: the name of the node of every built-in type but a tagged type
builtin_type == simple_type \cup structured_type

InitBuiltin ==
    /\ sema_module = Module(ModuleName, "absent", << >>)
    /\ arg \in builtin_type \cup typereference
    /\ pc = "start"
    /\ res = << >>
    /\ NoGeneration

\* the name of the drawn type, translated by _translate_type
TranslateType ==
    /\ pc = "start"
    /\ res' = << _translate_type(arg) >>
    /\ pc' = "translated"
    /\ UNCHANGED << sema_module, referenced_modules, assignment_components, ci, ai,
                    out, log, arg >>

\* T ::= the drawn type, declared by decl_type_assignment
DeclOfType ==
    /\ pc = "start"
    /\ res' = decl_type_assignment(sema_module,
                   TypeAssignment(<<"T">>, IF arg \in builtin_type THEN SimpleType(arg)
                                           ELSE DefinedType(arg)))
    /\ pc' = "declared"
    /\ UNCHANGED << sema_module, referenced_modules, assignment_components, ci, ai,
                    out, log, arg >>

NextBuiltin == TranslateType \/ DeclOfType

SpecBuiltin == InitBuiltin /\ [][NextBuiltin]_vars

\* C29: the name of every built-in type the grammar produces is translated to
\* a pyasn1 class, as itself and as the base class of a declaration; only names
\* that are not built-in are written as they are
BuiltinTypesTranslated ==
    LET classes == { Lit(ASN1_BUILTIN_TYPES[i][2]) : i \in 1..Len(ASN1_BUILTIN_TYPES) }
    IN /\ pc = "translated" => (res[1] \in classes <=> arg \in builtin_type)
       /\ pc = "declared" => (res[4] \in classes <=> arg \in builtin_type)

====
